---- MODULE Spec2Model ----
(***************************************************************************)
(* Model of the VSL compiler passes of tdt4205-problem-sets:               *)
(*   - the optimizer of tree.c (constant folding, unreachable code),       *)
(*   - the symbol binder of symbols.c (find_globals, bind_names,           *)
(*     add_string),                                                        *)
(*   - the code generator of generator.c, with the emitted program run on  *)
(*     a small x86-64 machine.                                             *)
(* The syntax tree is a heap of node_t records addressed by allocation     *)
(* ids (0 is the NULL pointer).  Every recursive C function is run as a    *)
(* machine with an explicit call stack, one action per call/return.        *)
(* The line-recognising automaton of table.c is a program of its own, with *)
(* its own specification TableSpec.                                        *)
(***************************************************************************)
EXTENDS Integers, Sequences, FiniteSets, TLC

(***************************************************************************)
(* Bounds of the explored inputs.                                          *)
(***************************************************************************)
MaxStmts == 3
StackWords == 24

(***************************************************************************)
(* Two's complement machine integers as they lie in memory on x86-64:      *)
(* little-endian sequences of bytes, 4 for an int and 8 for an int64_t.    *)
(***************************************************************************)
INT_BYTES == 4
INT64_BYTES == 8

\* w copies of byte x
RECURSIVE Fill(_, _)
Fill(x, w) == IF w = 0 THEN <<>> ELSE <<x>> \o Fill(x, w - 1)

Zero(w) == Fill(0, w)

RECURSIVE BytesOfNat(_, _)
BytesOfNat(n, w) ==
  IF w = 0 THEN <<>> ELSE <<n % 256>> \o BytesOfNat(n \div 256, w - 1)

RECURSIVE AddC(_, _, _)
AddC(a, b, c) ==
  IF Len(a) = 0 THEN <<>>
  ELSE LET s == a[1] + b[1] + c
       IN  <<s % 256>> \o AddC(Tail(a), Tail(b), s \div 256)

RECURSIVE Not(_)
Not(a) == IF Len(a) = 0 THEN <<>> ELSE <<255 - a[1]>> \o Not(Tail(a))

Add(a, b) == AddC(a, b, 0)
Sub(a, b) == AddC(a, Not(b), 1)
Neg(a) == AddC(Not(a), Zero(Len(a)), 1)
IsNeg(a) == a[Len(a)] >= 128
IsZero(a) == \A i \in 1..Len(a) : a[i] = 0

\* a * 2 + c modulo 256^Len(a), c the bit shifted in
RECURSIVE ShiftL1(_, _)
ShiftL1(a, c) ==
  IF Len(a) = 0 THEN <<>>
  ELSE <<(2 * a[1] + c) % 256>> \o ShiftL1(Tail(a), a[1] \div 128)

RECURSIVE ULess(_, _)
ULess(a, b) ==
  IF Len(a) = 0 THEN FALSE
  ELSE LET n == Len(a)
       IN  IF a[n] # b[n] THEN a[n] < b[n]
           ELSE ULess(SubSeq(a, 1, n - 1), SubSeq(b, 1, n - 1))

SLess(a, b) == IF IsNeg(a) # IsNeg(b) THEN IsNeg(a) ELSE ULess(a, b)

\* a * m + c modulo 256^Len(a), m and c single bytes
RECURSIVE MulByte(_, _, _)
MulByte(a, m, c) ==
  IF Len(a) = 0 THEN <<>>
  ELSE LET p == a[1] * m + c
       IN  <<p % 256>> \o MulByte(Tail(a), m, p \div 256)

\* schoolbook product modulo 256^Len(a)
RECURSIVE Mul(_, _)
Mul(a, b) ==
  IF Len(b) = 0 THEN Zero(Len(a))
  ELSE LET high == Mul(a, Tail(b))
       IN  Add(MulByte(a, b[1], 0), <<0>> \o SubSeq(high, 1, Len(a) - 1))

\* restoring division of unsigned n by unsigned d # 0, one bit of n at a
\* time from the top: r is the remainder so far, q the quotient bit
DivStep(bit, d, r) ==
  LET r1 == ShiftL1(r, bit)
  IN  IF ULess(r1, d) THEN [r |-> r1, q |-> 0]
      ELSE [r |-> Sub(r1, d), q |-> 1]

\* bits k..1 of the byte x.  (The tests on s.q and b.q below only make TLC
\* compute one step before it enters the next.)
RECURSIVE DivByte(_, _, _, _)
DivByte(x, d, k, r) ==
  IF k = 0 THEN [r |-> r, q |-> 0]
  ELSE LET s == DivStep((x \div (2 ^ (k - 1))) % 2, d, r)
       IN  IF s.q \in {0, 1}
           THEN LET rest == DivByte(x, d, k - 1, s.r)
                IN  [r |-> rest.r, q |-> s.q * (2 ^ (k - 1)) + rest.q]
           ELSE [r |-> r, q |-> 0]

\* bytes j..1 of n; yields the quotient bytes 1..j
RECURSIVE UDiv(_, _, _, _)
UDiv(n, d, j, r) ==
  IF j = 0 THEN <<>>
  ELSE LET b == DivByte(n[j], d, 8, r)
       IN  IF b.q \in 0..255 THEN UDiv(n, d, j - 1, b.r) \o <<b.q>>
           ELSE <<>>

Abs(a) == IF IsNeg(a) THEN Neg(a) ELSE a

\* signed division truncating toward zero (C's / and x86's idiv), b # 0
SDiv(a, b) ==
  LET q == UDiv(Abs(a), Abs(b), Len(a), Zero(Len(a)))
  IN  IF IsNeg(a) # IsNeg(b) THEN Neg(q) ELSE q

Bool(p, w) == IF p THEN BytesOfNat(1, w) ELSE Zero(w)

\* (int) x : keeps the low 4 bytes;  (int64_t) i : sign extension
ToInt(x) == SubSeq(x, 1, INT_BYTES)
ToInt64(i) ==
  i \o Fill(IF IsNeg(i) THEN 255 ELSE 0, INT64_BYTES - Len(i))

\* the int64_t values n and 2^k (k a multiple of 8 plus 7 or 0)
I64(n) == BytesOfNat(n, INT64_BYTES)
Pow2_31 == <<0, 0, 0, 128, 0, 0, 0, 0>>
Pow2_32 == <<0, 0, 0, 0, 1, 0, 0, 0>>
INT_MIN == <<0, 0, 0, 128>>
MinusOne(w) == Fill(255, w)

(***************************************************************************)
(* tree.c: the operator table used by constant folding.                    *)
(* Each function takes two int and returns int64_t; it is called through   *)
(* operation_func, a pointer to a function from two int to int.  Signed    *)
(* overflow of int is undefined; every x86-64 build of these one-line      *)
(* functions yields the wrapped 32-bit result once the caller has read the *)
(* return value as an int, so that is the outcome modelled.                *)
(***************************************************************************)
add(a, b) == ToInt64(Add(a, b))
subtract(a, b) == ToInt64(Sub(a, b))
multiply(a, b) == ToInt64(Mul(a, b))
divide(a, b) == ToInt64(SDiv(a, b))
equal(a, b) == Bool(a = b, INT64_BYTES)
not_equal(a, b) == Bool(a # b, INT64_BYTES)
less_than(a, b) == Bool(SLess(a, b), INT64_BYTES)
less_than_or_equal(a, b) == Bool(~SLess(b, a), INT64_BYTES)
greater_than(a, b) == Bool(SLess(b, a), INT64_BYTES)
greater_than_or_equal(a, b) == Bool(~SLess(a, b), INT64_BYTES)
negate(a, b) == ToInt64(Neg(a))
not(a, b) == Bool(IsZero(a), INT64_BYTES)

operator_to_func_table ==
  << <<"+", 2, "add">>, <<"-", 2, "subtract">>, <<"*", 2, "multiply">>,
     <<"/", 2, "divide">>, <<"==", 2, "equal">>, <<"!=", 2, "not_equal">>,
     <<"<", 2, "less_than">>, <<"<=", 2, "less_than_or_equal">>,
     <<">", 2, "greater_than">>, <<">=", 2, "greater_than_or_equal">>,
     <<"-", 1, "negate">>, <<"!", 1, "not">> >>

\* first table entry with that operator string and arity, "NULL" if none
get_operator_func(operator, n_operands) ==
  LET hits == {i \in 1..Len(operator_to_func_table) :
                 /\ operator_to_func_table[i][1] = operator
                 /\ operator_to_func_table[i][2] = n_operands}
  IN  IF hits = {} THEN "NULL"
      ELSE operator_to_func_table[CHOOSE i \in hits : \A j \in hits : i <= j][3]

\* idivl raises #DE (SIGFPE) on a zero divisor and on INT_MIN / -1
Traps(func, a, b) ==
  /\ func = "divide"
  /\ \/ IsZero(b)
     \/ a = INT_MIN /\ b = MinusOne(INT_BYTES)

ApplyFunc(func, a, b) ==
  CASE func = "add" -> add(a, b)
    [] func = "subtract" -> subtract(a, b)
    [] func = "multiply" -> multiply(a, b)
    [] func = "divide" -> divide(a, b)
    [] func = "equal" -> equal(a, b)
    [] func = "not_equal" -> not_equal(a, b)
    [] func = "less_than" -> less_than(a, b)
    [] func = "less_than_or_equal" -> less_than_or_equal(a, b)
    [] func = "greater_than" -> greater_than(a, b)
    [] func = "greater_than_or_equal" -> greater_than_or_equal(a, b)
    [] func = "negate" -> negate(a, b)
    [] func = "not" -> not(a, b)

\* int64_t new_value = func(value1, value2): the int64_t arguments are
\* converted to int, the result is read as an int and widened again
CallOperationFunc(func, value1, value2) ==
  ToInt64(ToInt(ApplyFunc(func, ToInt(value1), ToInt(value2))))

(***************************************************************************)
(* Syntax trees as the parser builds them (nested), and their layout on    *)
(* the heap: node ids in pre-order, node_t fields type, data, n_children,  *)
(* children, symbol.  frees counts the calls of free() on the node.        *)
(***************************************************************************)
T(type, data, children) == [type |-> type, data |-> data, children |-> children]
Num(v) == T("NUMBER_LITERAL", v, <<>>)
Id(name) == T("IDENTIFIER", name, <<>>)
Str(s) == T("STRING_LITERAL", s, <<>>)
Op1(o, a) == T("OPERATOR", o, <<a>>)
Op2(o, a, b) == T("OPERATOR", o, <<a, b>>)
List(cs) == T("LIST", 0, cs)
PrintStmt(items) == T("PRINT_STATEMENT", 0, <<List(items)>>)
Return(e) == T("RETURN_STATEMENT", 0, <<e>>)
Break == T("BREAK_STATEMENT", 0, <<>>)
Assign(name, e) == T("ASSIGNMENT_STATEMENT", 0, <<Id(name), e>>)
If(c, s) == T("IF_STATEMENT", 0, <<c, s>>)
IfElse(c, s, e) == T("IF_STATEMENT", 0, <<c, s, e>>)
While(c, s) == T("WHILE_STATEMENT", 0, <<c, s>>)
Block(stmts) == T("BLOCK", 0, <<List(stmts)>>)
RECURSIVE Ids(_)
Ids(names) ==
  IF Len(names) = 0 THEN <<>> ELSE <<Id(names[1])>> \o Ids(Tail(names))
BlockD(names, stmts) ==
  T("BLOCK", 0, <<List(<<List(Ids(names))>>), List(stmts)>>)
BlockDD(names1, names2, stmts) ==
  T("BLOCK", 0, <<List(<<List(Ids(names1)), List(Ids(names2))>>), List(stmts)>>)
Call(name, args) == T("FUNCTION_CALL", 0, <<Id(name), List(args)>>)
Index(name, e) == T("ARRAY_INDEXING", 0, <<Id(name), e>>)
Function(name, params, body) ==
  T("FUNCTION", 0, <<Id(name), List(Ids(params)), body>>)
GlobalDecl(names) == T("GLOBAL_DECLARATION", 0, <<List(Ids(names))>>)
Program(decls) == List(decls)

RECURSIVE Size(_)
RECURSIVE SizeSeq(_)
Size(t) == 1 + SizeSeq(t.children)
SizeSeq(ts) == IF Len(ts) = 0 THEN 0 ELSE Size(ts[1]) + SizeSeq(Tail(ts))

\* the ids of sibling subtrees laid out one after the other from base
RECURSIVE ChildIds(_, _)
ChildIds(ts, base) ==
  IF Len(ts) = 0 THEN <<>>
  ELSE <<base>> \o ChildIds(Tail(ts), base + Size(ts[1]))

RECURSIVE Flat(_, _)
RECURSIVE FlatSeq(_, _)
Flat(t, base) ==
  << [type |-> t.type, data |-> t.data, n_children |-> Len(t.children),
      children |-> ChildIds(t.children, base + 1),
      symbol |-> 0, frees |-> 0, data_frees |-> 0] >>
  \o FlatSeq(t.children, base + 1)
FlatSeq(ts, base) ==
  IF Len(ts) = 0 THEN <<>>
  ELSE Flat(ts[1], base) \o FlatSeq(Tail(ts), base + Size(ts[1]))

NULL == 0

(***************************************************************************)
(* tree.c: node_create, node_finalize, destroy_subtree on a heap h.        *)
(***************************************************************************)
node_create(h, type, data, children) ==
  Append(h, [type |-> type, data |-> data, n_children |-> Len(children),
             children |-> children, symbol |-> NULL, frees |-> 0,
             data_frees |-> 0])

\* frees the payload the node owns, its child array and the node itself
\* A bug to tell C17 by: the node frees a string that is in the pool.
node_finalize_frees_reference(h, discard) ==
  IF discard = NULL THEN h
  ELSE [h EXCEPT ![discard].frees = @ + 1,
                 ![discard].data_frees =
                    IF h[discard].type \in {"IDENTIFIER", "STRING_LITERAL",
                                            "STRING_LIST_REFERENCE"}
                    THEN @ + 1 ELSE @]

node_finalize(h, discard) ==
  IF discard = NULL THEN h
  ELSE [h EXCEPT ![discard].frees = @ + 1,
                 ![discard].data_frees =
                    IF h[discard].type \in {"IDENTIFIER", "STRING_LITERAL"}
                    THEN @ + 1 ELSE @]

\* the nodes destroy_subtree finalizes, children first, in call order
RECURSIVE destroy_order(_, _)
RECURSIVE destroy_children(_, _, _)
destroy_order(h, discard) ==
  IF discard = NULL THEN <<>>
  ELSE destroy_children(h, discard, 1) \o <<discard>>
destroy_children(h, discard, i) ==
  IF i > h[discard].n_children THEN <<>>
  ELSE destroy_order(h, h[discard].children[i])
       \o destroy_children(h, discard, i + 1)

RECURSIVE finalize_all(_, _)
finalize_all(h, order) ==
  IF Len(order) = 0 THEN h
  ELSE LET h1 == node_finalize(h, order[1])
       IN  IF Len(h1) = Len(h) THEN finalize_all(h1, Tail(order)) ELSE h

destroy_subtree(h, discard) == finalize_all(h, destroy_order(h, discard))

(***************************************************************************)
(* tree.c: constant_fold_operator, constant_fold_if, constant_fold_while.  *)
(* Each takes the heap and the node (whose children are folded already)    *)
(* and yields the new heap and the returned node pointer.                  *)
(***************************************************************************)
\* A bug to tell C27 by: only operators of two operands are folded.
constant_fold_operator_binary_only(h, node) ==
  LET n == h[node]
      n_operands == n.n_children
      same == [nodes |-> h, ret |-> node, trap |-> FALSE]
  IN  IF \/ n_operands # 2
         \/ \E i \in 1..n_operands : h[n.children[i]].type # "NUMBER_LITERAL"
      THEN same
      ELSE LET value1 == h[n.children[1]].data
               value2 == h[n.children[2]].data
               func == get_operator_func(n.data, n_operands)
           IN  IF func = "NULL" THEN same
               ELSE IF Traps(func, ToInt(value1), ToInt(value2))
               THEN [nodes |-> h, ret |-> node, trap |-> TRUE]
               ELSE LET new_value == CallOperationFunc(func, value1, value2)
                        h1 == destroy_subtree(h, node)
                        h2 == node_create(h1, "NUMBER_LITERAL", new_value, <<>>)
                    IN  [nodes |-> h2, ret |-> Len(h2), trap |-> FALSE]

constant_fold_operator(h, node) ==
  LET n == h[node]
      n_operands == n.n_children
      same == [nodes |-> h, ret |-> node, trap |-> FALSE]
  IN  IF \E i \in 1..n_operands : h[n.children[i]].type # "NUMBER_LITERAL"
      THEN same
      ELSE LET value1 == h[n.children[1]].data
               value2 == IF n_operands > 1 THEN h[n.children[2]].data
                         ELSE Zero(INT64_BYTES)
               func == get_operator_func(n.data, n_operands)
           IN  IF func = "NULL" THEN same
               ELSE IF Traps(func, ToInt(value1), ToInt(value2))
               THEN [nodes |-> h, ret |-> node, trap |-> TRUE]
               ELSE LET new_value == CallOperationFunc(func, value1, value2)
                        h1 == destroy_subtree(h, node)
                        h2 == node_create(h1, "NUMBER_LITERAL", new_value, <<>>)
                    IN  [nodes |-> h2, ret |-> Len(h2), trap |-> FALSE]

\* A bug to tell C8 by: the branches are taken the wrong way round.
constant_fold_if_swapped(h, node) ==
  LET n == h[node]
      condition_node == n.children[1]
  IN  IF h[condition_node].type # "NUMBER_LITERAL"
      THEN [nodes |-> h, ret |-> node]
      ELSE IF IsZero(h[condition_node].data)
      THEN [nodes |-> destroy_subtree(
                        [h EXCEPT ![node].children[2] = NULL], node),
            ret |-> n.children[2]]
      ELSE IF n.n_children < 3
      THEN [nodes |-> destroy_subtree(h, node), ret |-> NULL]
      ELSE [nodes |-> destroy_subtree(
                        [h EXCEPT ![node].children[3] = NULL], node),
            ret |-> n.children[3]]

constant_fold_if(h, node) ==
  LET n == h[node]
      condition_node == n.children[1]
  IN  IF h[condition_node].type # "NUMBER_LITERAL"
      THEN [nodes |-> h, ret |-> node]
      ELSE LET condition == h[condition_node].data
           IN  IF ~IsZero(condition)
               THEN [nodes |-> destroy_subtree(
                                 [h EXCEPT ![node].children[2] = NULL], node),
                     ret |-> n.children[2]]
               ELSE IF n.n_children < 3
               THEN [nodes |-> destroy_subtree(h, node), ret |-> NULL]
               ELSE [nodes |-> destroy_subtree(
                                 [h EXCEPT ![node].children[3] = NULL], node),
                     ret |-> n.children[3]]

\* A bug to tell C9 by: a loop is removed whatever literal its condition is.
constant_fold_while_any_literal(h, node) ==
  IF h[h[node].children[1]].type # "NUMBER_LITERAL"
  THEN [nodes |-> h, ret |-> node]
  ELSE [nodes |-> destroy_subtree(h, node), ret |-> NULL]

constant_fold_while(h, node) ==
  LET condition_node == h[node].children[1]
  IN  IF h[condition_node].type # "NUMBER_LITERAL"
      THEN [nodes |-> h, ret |-> node]
      ELSE IF IsZero(h[condition_node].data)
      THEN [nodes |-> destroy_subtree(h, node), ret |-> NULL]
      ELSE [nodes |-> h, ret |-> node]

(***************************************************************************)
(* The programs explored: what the scanner and parser can deliver.         *)
(* Number tokens are [0-9]+, so a literal of the source is never negative; *)
(* negative operands come from a folded unary minus.                       *)
(***************************************************************************)
BinaryOperators == {"+", "-", "*", "/", "==", "!=", "<", "<=", ">", ">="}
UnaryOperators == {"-", "!"}

LeftOperands ==
  {Num(I64(0)), Num(I64(3)), Op1("-", Num(I64(7))), Num(Pow2_31),
   Num(Add(Pow2_32, I64(2)))}
RightOperands ==
  {Num(I64(0)), Num(I64(1)), Num(I64(2)), Op1("-", Num(I64(1))), Num(I64(3))}

OperatorExprs ==
  {Op2(o, a, b) : o \in BinaryOperators, a \in LeftOperands, b \in RightOperands}
  \cup {Op1(o, a) : o \in UnaryOperators, a \in LeftOperands}
  \cup {Op2("+", Num(I64(2)), Op2("*", Num(I64(3)), Num(I64(4)))),
        Op2("+", Id("x"), Op2("*", Num(I64(3)), Num(I64(4))))}

OperatorPrograms ==
  {Program(<<Function("f", <<"x">>, Return(e))>>) : e \in OperatorExprs}

Conditions ==
  {Num(I64(0)), Num(I64(1)), Num(Pow2_32), Id("x"),
   Op2("-", Num(I64(1)), Num(I64(1))), Op2("<", Id("x"), Num(I64(1)))}
Branches ==
  {Return(Num(I64(1))), PrintStmt(<<Str("hi")>>),
   If(Num(I64(0)), Assign("x", Num(I64(2))))}

IfStatements ==
  {If(c, s) : c \in Conditions, s \in Branches}
  \cup {IfElse(c, s, e) : c \in Conditions, s \in Branches, e \in Branches}
WhileStatements ==
  {While(c, s) : c \in Conditions,
                 s \in {Break, PrintStmt(<<Str("hi")>>),
                        Block(<<Assign("x", Num(I64(2))), Break>>)}}

ControlPrograms ==
  {Program(<<Function("f", <<"x">>, Block(<<s, PrintStmt(<<Id("x")>>)>>))>>) :
     s \in IfStatements \cup WhileStatements}

Statements ==
  {Return(Num(I64(1))), PrintStmt(<<Str("hi")>>),
   IfElse(Id("x"), Return(Num(I64(1))), Break),
   If(Id("x"), Return(Num(I64(1)))),
   Block(<<PrintStmt(<<Str("bye")>>), Return(Id("x")), PrintStmt(<<Str("hi")>>)>>)}

RECURSIVE StatementListsOf(_)
StatementListsOf(n) ==
  IF n = 0 THEN {<<>>}
  ELSE {Append(ss, s) : ss \in StatementListsOf(n - 1), s \in Statements}
StatementLists == UNION {StatementListsOf(n) : n \in 1..MaxStmts}

BlockPrograms ==
  {Program(<<Function("f", <<"x">>, Block(ss))>>) : ss \in StatementLists}

\* scopes: a global declaration, a function f with parameters, an outer block
\* with a nested block and a sibling block that declares x again; one use in
\* the outer block before the nested one, one inside it, one after it
Names == {"x", "y", "z"}
Scope(g, ps, d1, d2, u1, u2, u3) ==
  Program(<<GlobalDecl(g),
            Function("f", ps,
              BlockD(d1, <<PrintStmt(<<Id(u1)>>),
                           BlockD(d2, <<Assign(u2, Id(u2))>>),
                           BlockD(<<"x">>, <<Assign("x", Num(I64(1)))>>),
                           Return(Id(u3))>>))>>)
Declarations ==
  {<< <<"y">>, <<"x">>, <<"x">>, <<"x">> >>,
   << <<"x">>, <<"x">>, <<"y">>, <<"x">> >>,
   << <<"x", "y">>, <<>>, <<"y">>, <<"z">> >>,
   << <<"y">>, <<"x", "y">>, <<"x", "z">>, <<"z", "y">> >>,
   << <<"z">>, <<"z">>, <<"z">>, <<"z">> >>,
   << <<"y", "y">>, <<"x">>, <<"x">>, <<"x">> >>,
   << <<"f">>, <<"x">>, <<"y">>, <<"z">> >>,
   << <<"y">>, <<"x", "x">>, <<"y">>, <<"z">> >>,
   << <<"y">>, <<"x">>, <<"z", "z">>, <<"x">> >>,
   << <<"y">>, <<"x">>, <<"z">>, <<"x", "y", "x">> >>}
ScopePrograms ==
  {Scope(d[1], d[2], d[3], d[4], u1, u2, u3) :
     d \in Declarations, u1 \in Names, u2 \in Names, u3 \in Names}

\* string literals in two functions, a forward call, a global array, and a
\* block with two declaration lists
StringPrograms ==
  {Program(<<Function("f", <<>>,
               Block(<<PrintStmt(<<Str(a), Str(b)>>),
                       Return(Call("g", <<Num(I64(1))>>))>>)),
             T("GLOBAL_DECLARATION", 0, <<List(<<Index("t", Num(I64(2)))>>)>>),
             Function("g", <<"x">>,
               BlockDD(<<"y">>, <<"z">>,
                       <<PrintStmt(<<Str(c), Index("t", Id("x"))>>),
                         If(Id("y"), Return(Id("z")))>>))>>) :
     a \in {"hi", "bye"}, b \in {"hi", "bye"}, c \in {"hi", "bye"}}

\* a function f that uses a global variable v, a global array t and a
\* function g, the three declarations in every order
ForwardPrograms ==
  LET Forward ==
        <<Function("f", <<>>,
            Block(<<Assign("v", Index("t", Call("g", <<Id("v")>>))),
                    Return(Id("v"))>>)),
          T("GLOBAL_DECLARATION", 0,
            <<List(<<Id("v"), Index("t", Num(I64(2)))>>)>>),
          Function("g", <<"x">>, Block(<<Return(Id("x"))>>))>>
  IN  {Program(<<Forward[a], Forward[b], Forward[c]>>) :
         a \in 1..3, b \in 1..3, c \in 1..3}

Digits == <<"0", "1", "2", "3", "4", "5", "6", "7", "8", "9">>

\* programs for the code generator: a doubling entry function, one that
\* returns a literal beyond 32 bits, one for each binary operator applied to
\* its two parameters, calls of a function of seven parameters with plain
\* arguments, as the right operand of a subtraction, with such a call as an
\* argument and with two arguments only, a call that is a statement, and
\* entry functions of six and of seven parameters with a local variable
GeneratorPrograms ==
  LET P7 == <<"a", "b", "c", "d", "e", "f", "h">>
      N(k) == Num(I64(k))
      G(first, last) ==
        Call("g", <<first, N(12), N(13), N(14), N(15), N(16), last>>)
      g == Function("g", P7, Block(<<Return(Id("h"))>>))
      local(ps) ==
        Function("m", ps,
                 BlockD(<<"y">>, <<Assign("y", Id(ps[Len(ps)])),
                                   Return(Id("y"))>>))
  IN  {Program(<<GlobalDecl(<<"v">>),
                 Function("f", <<"n">>,
                   Block(<<Return(Op2("*", Id("n"), N(2)))>>))>>),
       Program(<<Function("m", <<"x">>,
                   Block(<<Return(Op2("-", Id("x"), G(N(11), N(7))))>>)),
                 g>>),
       Program(<<Function("f", <<"n">>,
                   Block(<<Return(Num(Add(Pow2_32, I64(2))))>>))>>),
       Program(<<Function("m", <<"x">>, Block(<<Return(G(N(11), Id("x")))>>)),
                 g>>),
       Program(<<Function("m", <<"x">>,
                   Block(<<Return(G(G(N(1), N(7)), Id("x")))>>)),
                 g>>),
       Program(<<Function("m", <<"x">>,
                   Block(<<Return(Call("g", <<Id("x"), N(12)>>))>>)),
                 g>>),
       Program(<<Function("m", <<"x">>,
                   Block(<<Call("k", <<Id("x")>>), Return(Id("x"))>>)),
                 Function("k", <<"a">>, Block(<<Return(Id("a"))>>))>>),
       Program(<<local(SubSeq(P7, 1, 6))>>),
       Program(<<local(P7)>>)}
      \cup {Program(<<GlobalDecl(<<"v">>),
                      Function("f", <<"a", "b">>,
                        Block(<<Return(Op2(o, Id("a"), Id("b")))>>))>>) :
              o \in BinaryOperators}

\* nine string literals: the string list grows a second time at the eighth
PoolPrograms ==
  {Program(<<Function("f", <<>>,
               Block(<<PrintStmt([k \in 1..9 |-> Str(Digits[k])]),
                       Return(Num(I64(0)))>>))>>)}

\* the command lines the compiled program is started with
Argvs ==
  LET D(n) == <<Digits[n + 1]>>
  IN  {<<>>, <<<<"2", "1">>>>, << <<"-", "8">>, D(2)>>, <<D(9), <<"-", "2">>>>,
       <<D(3), D(3)>>, << <<"-", "6">>, <<"-", "3">> >>,
       <<D(1), D(2), D(3)>>,
       <<D(1), D(2), D(3), D(4), D(5), D(6), D(7)>>}

Programs ==
  OperatorPrograms \cup ControlPrograms \cup BlockPrograms
    \cup ScopePrograms \cup StringPrograms \cup ForwardPrograms
    \cup GeneratorPrograms \cup PoolPrograms

(***************************************************************************)
(* State.                                                                  *)
(***************************************************************************)
VARIABLES nodes, root, pc, stack, call, loop_i,
          symbols, tables, hashmaps, global_symbols,
          string_list, string_list_len, string_list_capacity, string_list_frees,
          error, assembly, machine,
          transition_table, state, byte, prev

tree == <<nodes, root>>
output == <<assembly, machine>>
dfa == <<transition_table, state, byte, prev>>
symtab == <<symbols, tables, hashmaps, global_symbols>>
strings ==
  <<string_list, string_list_len, string_list_capacity, string_list_frees>>
vars == <<nodes, root, pc, stack, call, loop_i, symbols, tables, hashmaps,
          global_symbols, string_list, string_list_len, string_list_capacity,
          string_list_frees, error, assembly, machine, transition_table,
          state, byte, prev>>

\* the compiled program before it is started
Registers == {"RAX", "RCX", "RDX", "RSI", "RDI", "R8", "R9", "RBP", "RSP"}
StringAddress(k) == 65536 + k
ArgAddress(i) == 131072 + i
Junk == {Zero(INT64_BYTES), Fill(204, INT64_BYTES)}

Off ==
  [status |-> "off", regs |-> [r \in Registers |-> Zero(INT64_BYTES)],
   mem |-> <<>>, rip |-> 0, flags |-> [zf |-> FALSE, lt |-> FALSE],
   out |-> <<>>, exit_status |-> Zero(INT64_BYTES), argv |-> <<>>,
   junk |-> Zero(INT64_BYTES), parsed |-> <<>>, evaluated |-> <<>>,
   site |-> <<>>]

NoCall == [fn |-> "none", node |-> NULL, ret |-> NULL]

Init ==
  /\ \E program \in Programs : nodes = Flat(program, 1)
  /\ root = 1
  /\ pc = "parsed"
  /\ stack = <<>>
  /\ call = NoCall
  /\ loop_i = 0
  /\ symbols = <<>>
  /\ tables = <<>>
  /\ hashmaps = <<>>
  /\ global_symbols = NULL
  /\ string_list = <<>>
  /\ string_list_len = 0
  /\ string_list_frees = 0
  /\ assembly = <<>>
  /\ machine = Off
  /\ string_list_capacity = 0
  /\ error = ""
  /\ transition_table = <<>>
  /\ state = 0
  /\ byte = 0
  /\ prev = 0

Top == stack[Len(stack)]
Pop == SubSeq(stack, 1, Len(stack) - 1)

(***************************************************************************)
(* tree.c: constant_fold_syntax_tree and constant_fold_subtree.  A frame   *)
(* is one activation of constant_fold_subtree: its node and loop index i.  *)
(***************************************************************************)
constant_fold_syntax_tree ==
  /\ pc = "parsed"
  /\ pc' = "folding"
  /\ stack' = <<[node |-> root, i |-> 0]>>
  /\ UNCHANGED <<dfa, output, nodes, root, call, loop_i, symtab, strings, error>>

\* one round of the loop over the children: recurse into a child, skip NULL
FoldChild ==
  /\ pc = "folding"
  /\ Top.i < nodes[Top.node].n_children
  /\ LET child == nodes[Top.node].children[Top.i + 1]
     IN  IF child # NULL
         THEN stack' = Append(stack, [node |-> child, i |-> 0])
         ELSE stack' = [stack EXCEPT ![Len(stack)].i = @ + 1]
  /\ UNCHANGED <<dfa, output, nodes, root, pc, call, loop_i, symtab, strings, error>>

\* the activation returns folded: the caller stores it in children[i], and
\* constant_fold_syntax_tree stores the outermost result in root
FoldReturn(fn, h, folded) ==
  /\ call' = [fn |-> fn, node |-> Top.node, ret |-> folded]
  /\ UNCHANGED <<dfa, output, loop_i, symtab, strings, error>>
  /\ IF Len(stack) = 1
     THEN /\ nodes' = h
          /\ root' = folded
          /\ pc' = "folded"
          /\ stack' = <<>>
     ELSE LET caller == stack[Len(stack) - 1]
          IN  /\ nodes' = [h EXCEPT ![caller.node].children[caller.i + 1] = folded]
              /\ stack' = [Pop EXCEPT ![Len(stack) - 1].i = @ + 1]
              /\ UNCHANGED <<dfa, output, root, pc>>

FoldSwitch(type) ==
  /\ pc = "folding"
  /\ Top.i = nodes[Top.node].n_children
  /\ nodes[Top.node].type = type

FoldOperator ==
  /\ FoldSwitch("OPERATOR")
  /\ LET out == constant_fold_operator(nodes, Top.node)
     IN  IF out.trap
         THEN /\ pc' = "sigfpe"
              /\ call' = [fn |-> "constant_fold_operator", node |-> Top.node,
                          ret |-> NULL]
              /\ UNCHANGED <<dfa, output, nodes, root, stack, loop_i, symtab, strings, error>>
         ELSE FoldReturn("constant_fold_operator", out.nodes, out.ret)

FoldIf ==
  /\ FoldSwitch("IF_STATEMENT")
  /\ LET out == constant_fold_if(nodes, Top.node)
     IN  FoldReturn("constant_fold_if", out.nodes, out.ret)

FoldWhile ==
  /\ FoldSwitch("WHILE_STATEMENT")
  /\ LET out == constant_fold_while(nodes, Top.node)
     IN  FoldReturn("constant_fold_while", out.nodes, out.ret)

FoldDefault ==
  /\ pc = "folding"
  /\ Top.i = nodes[Top.node].n_children
  /\ nodes[Top.node].type \notin {"OPERATOR", "IF_STATEMENT", "WHILE_STATEMENT"}
  /\ FoldReturn("constant_fold_subtree", nodes, Top.node)

(***************************************************************************)
(* tree.c: remove_unreachable_code.  A frame is one activation: its node   *)
(* and res, the values its recursive calls have returned so far.           *)
(***************************************************************************)
\* the nodes the activation on node calls itself on, in order
callees(h, node) ==
  IF node = NULL THEN <<>>
  ELSE LET n == h[node]
       IN  CASE n.type = "IF_STATEMENT" ->
                  IF n.n_children = 2 THEN <<n.children[2]>>
                  ELSE <<n.children[2], n.children[3]>>
             [] n.type = "WHILE_STATEMENT" -> <<n.children[2]>>
             [] n.type = "BLOCK" ->
                  LET statement_list == n.children[n.n_children]
                  IN  SubSeq(h[statement_list].children, 1,
                             h[statement_list].n_children)
             [] OTHER -> <<>>

\* A bug to tell C22 by: an if with one interrupting branch interrupts.
interrupts_either_branch(h, node, res) ==
  IF node = NULL THEN FALSE
  ELSE LET n == h[node]
       IN  CASE n.type \in {"RETURN_STATEMENT", "BREAK_STATEMENT"} -> TRUE
             [] n.type = "IF_STATEMENT" ->
                  IF n.n_children = 2 THEN FALSE ELSE res[1] \/ res[2]
             [] OTHER -> FALSE

\* the value returned once no call is left to make
interrupts(h, node, res) ==
  IF node = NULL THEN FALSE
  ELSE LET n == h[node]
       IN  CASE n.type \in {"RETURN_STATEMENT", "BREAK_STATEMENT"} -> TRUE
             [] n.type = "IF_STATEMENT" ->
                  IF n.n_children = 2 THEN FALSE ELSE res[1] /\ res[2]
             [] OTHER -> FALSE

RECURSIVE destroy_statements(_, _, _, _)
destroy_statements(h, statement_list, j, no_of_statements) ==
  IF j >= no_of_statements THEN h
  ELSE LET h1 == destroy_subtree(h, h[statement_list].children[j + 1])
       IN  IF Len(h1) = Len(h)
           THEN destroy_statements(h1, statement_list, j + 1, no_of_statements)
           ELSE h

\* A bug to tell C10 by: the interrupting statement is cut off as well.
truncate_block_before(h, node, i) ==
  LET statement_list == h[node].children[h[node].n_children]
      no_of_statements == h[statement_list].n_children
      h1 == [h EXCEPT ![statement_list].n_children = i]
  IN  destroy_statements(h1, statement_list, i, no_of_statements)

\* statement i of the BLOCK interrupts: cut the list after it
truncate_block(h, node, i) ==
  LET statement_list == h[node].children[h[node].n_children]
      no_of_statements == h[statement_list].n_children
      h1 == [h EXCEPT ![statement_list].n_children = i + 1]
  IN  destroy_statements(h1, statement_list, i + 1, no_of_statements)

\* the BLOCK { original_function_body  return 0 } put in place of the body
wrap_function_body(h, child) ==
  LET function_body == h[child].children[3]
      h1 == node_create(h, "NUMBER_LITERAL", Zero(INT64_BYTES), <<>>)
      zero_node == Len(h1)
      h2 == node_create(h1, "RETURN_STATEMENT", 0, <<zero_node>>)
      return_node == Len(h2)
      h3 == node_create(h2, "LIST", 0, <<function_body, return_node>>)
      statement_list == Len(h3)
      h4 == node_create(h3, "BLOCK", 0, <<statement_list>>)
      new_function_body == Len(h4)
  IN  [h4 EXCEPT ![child].children[3] = new_function_body]

remove_unreachable_code_syntax_tree ==
  /\ pc = "folded"
  /\ pc' = "removing"
  /\ loop_i' = 0
  /\ UNCHANGED <<dfa, output, nodes, root, stack, call, symtab, strings, error>>

\* one round of the loop over the top-level declarations
RemoveNextChild ==
  /\ pc = "removing"
  /\ IF loop_i < nodes[root].n_children
     THEN LET child == nodes[root].children[loop_i + 1]
          IN  IF nodes[child].type # "FUNCTION"
              THEN /\ loop_i' = loop_i + 1
                   /\ UNCHANGED <<dfa, output, pc, stack>>
              ELSE /\ stack' = <<[node |-> nodes[child].children[3], res |-> <<>>]>>
                   /\ pc' = "removing_body"
                   /\ UNCHANGED loop_i
     ELSE /\ pc' = "removed"
          /\ UNCHANGED <<dfa, output, loop_i, stack>>
  /\ UNCHANGED <<dfa, output, nodes, root, call, symtab, strings, error>>

BlockInterrupted ==
  /\ Top.node # NULL
  /\ nodes[Top.node].type = "BLOCK"
  /\ Len(Top.res) > 0
  /\ Top.res[Len(Top.res)]

RemoveCall ==
  /\ pc = "removing_body"
  /\ ~BlockInterrupted
  /\ Len(Top.res) < Len(callees(nodes, Top.node))
  /\ stack' = Append(stack, [node |-> callees(nodes, Top.node)[Len(Top.res) + 1],
                             res |-> <<>>])
  /\ UNCHANGED <<dfa, output, nodes, root, pc, call, loop_i, symtab, strings, error>>

RemoveReturn(value) ==
  /\ call' = [fn |-> "remove_unreachable_code", node |-> Top.node, ret |-> value]
  /\ IF Len(stack) = 1
     THEN /\ stack' = <<>>
          /\ pc' = "removed_body"
     ELSE /\ stack' = [Pop EXCEPT ![Len(stack) - 1].res = Append(@, value)]
          /\ UNCHANGED pc
  /\ UNCHANGED <<dfa, output, root, loop_i, symtab, strings, error>>

RemoveTruncate ==
  /\ pc = "removing_body"
  /\ BlockInterrupted
  /\ nodes' = truncate_block(nodes, Top.node, Len(Top.res) - 1)
  /\ RemoveReturn(TRUE)

RemoveDone ==
  /\ pc = "removing_body"
  /\ ~BlockInterrupted
  /\ Len(Top.res) = Len(callees(nodes, Top.node))
  /\ UNCHANGED nodes
  /\ RemoveReturn(interrupts(nodes, Top.node, Top.res))

\* back in remove_unreachable_code_syntax_tree with has_return
RemoveAfterBody ==
  /\ pc = "removed_body"
  /\ LET child == nodes[root].children[loop_i + 1]
         has_return == call.ret
     IN  nodes' = IF has_return THEN nodes ELSE wrap_function_body(nodes, child)
  /\ loop_i' = loop_i + 1
  /\ pc' = "removing"
  /\ UNCHANGED <<dfa, output, root, stack, call, symtab, strings, error>>

(***************************************************************************)
(* symbol_table.c (declared in vslc.h, used by symbols.c): symbol tables   *)
(* and their chained hashmaps.  st is the record of the three heaps        *)
(* symbols, tables, hashmaps; ids index them, 0 is NULL.                   *)
(***************************************************************************)
SymTab == [symbols |-> symbols, tables |-> tables, hashmaps |-> hashmaps]

symbol_hashmap_init(st) ==
  [st EXCEPT !.hashmaps =
     Append(@, [entries |-> <<>>, backup |-> NULL, destroyed |-> 0])]

symbol_table_init(st) ==
  LET st1 == symbol_hashmap_init(st)
  IN  [st1 EXCEPT !.tables =
         Append(@, [symbols |-> <<>>, hashmap |-> Len(st1.hashmaps)])]

symbol_hashmap_destroy(st, hashmap) ==
  [st EXCEPT !.hashmaps[hashmap].destroyed = @ + 1]

\* the symbol of that name in this one map, NULL if it has none
hashmap_find(st, hashmap, name) ==
  LET entries == st.hashmaps[hashmap].entries
      hits == {k \in 1..Len(entries) : st.symbols[entries[k]].name = name}
  IN  IF hits = {} THEN NULL ELSE entries[CHOOSE k \in hits : TRUE]

\* looks in the map, then along the backup links
RECURSIVE symbol_hashmap_lookup(_, _, _)
symbol_hashmap_lookup(st, hashmap, name) ==
  IF hashmap = NULL THEN NULL
  ELSE LET found == hashmap_find(st, hashmap, name)
       IN  IF found # NULL THEN found
           ELSE symbol_hashmap_lookup(st, st.hashmaps[hashmap].backup, name)

\* a name already in the table's current map is a collision; otherwise the
\* symbol gets the next sequence number of the table
symbol_table_insert(st, table, symbol) ==
  LET hashmap == st.tables[table].hashmap
  IN  IF hashmap_find(st, hashmap, symbol.name) # NULL
      THEN [st |-> st, res |-> "INSERT_COLLISION", symbol |-> NULL]
      ELSE LET id == Len(st.symbols) + 1
               numbered == [symbol EXCEPT !.sequence_number =
                                            Len(st.tables[table].symbols)]
           IN  [st |-> [st EXCEPT !.symbols = Append(@, numbered),
                                  !.tables[table].symbols = Append(@, id),
                                  !.hashmaps[hashmap].entries = Append(@, id)],
                res |-> "INSERT_OK", symbol |-> id]

(***************************************************************************)
(* symbols.c: create_symbol, and the loops that call it.                   *)
(***************************************************************************)
\* A bug to tell C3 by: on a collision the symbol already there is returned.
create_symbol_or_old(st, symbol_node, name, symbol_type, symbol_table) ==
  LET symbol == [node |-> symbol_node, name |-> name, type |-> symbol_type,
                 sequence_number |-> 0, function_symtable |-> NULL]
      ins == symbol_table_insert(st, symbol_table, symbol)
  IN  IF ins.res = "INSERT_COLLISION"
      THEN [st |-> st,
            ret |-> hashmap_find(st, st.tables[symbol_table].hashmap, name)]
      ELSE [st |-> ins.st, ret |-> ins.symbol]

create_symbol(st, symbol_node, name, symbol_type, symbol_table) ==
  LET symbol == [node |-> symbol_node, name |-> name, type |-> symbol_type,
                 sequence_number |-> 0, function_symtable |-> NULL]
      ins == symbol_table_insert(st, symbol_table, symbol)
  IN  IF ins.res = "INSERT_COLLISION" THEN [st |-> st, ret |-> NULL]
      ELSE [st |-> ins.st, ret |-> ins.symbol]

\* create_symbol for each item [node, name, type] in order, up to the first
\* that returns NULL
RECURSIVE create_symbols(_, _, _)
create_symbols(st, items, symbol_table) ==
  IF Len(items) = 0 THEN [st |-> st, ok |-> TRUE]
  ELSE LET made == create_symbol(st, items[1].node, items[1].name,
                                 items[1].type, symbol_table)
       IN  IF made.ret = NULL THEN [st |-> st, ok |-> FALSE]
           ELSE create_symbols(made.st, Tail(items), symbol_table)

\* the declarations of one GLOBAL_DECLARATION node, as find_globals reads them
RECURSIVE global_items(_, _, _)
global_items(h, declaration_list_node, j) ==
  IF j >= h[declaration_list_node].n_children THEN <<>>
  ELSE LET declaration_list_child == h[declaration_list_node].children[j + 1]
           rest == global_items(h, declaration_list_node, j + 1)
       IN  IF h[declaration_list_child].type = "IDENTIFIER"
           THEN <<[node |-> declaration_list_child,
                   name |-> h[declaration_list_child].data,
                   type |-> "SYMBOL_GLOBAL_VAR"]>> \o rest
           ELSE IF h[declaration_list_child].type = "ARRAY_INDEXING"
           THEN <<[node |-> declaration_list_child,
                   name |-> h[h[declaration_list_child].children[1]].data,
                   type |-> "SYMBOL_GLOBAL_ARRAY"]>> \o rest
           ELSE rest

\* the loop of create_tables over the parameters of one function, from
\* parameter i on: res tells how it ended
RECURSIVE create_parameters(_, _, _, _, _)
create_parameters(st, h, parameter_list_node, i, function_symtable) ==
  IF i >= h[parameter_list_node].n_children THEN [st |-> st, res |-> "done"]
  ELSE LET parameter_node == h[parameter_list_node].children[i + 1]
           made == create_symbol(st, parameter_node, h[parameter_node].data,
                                 "SYMBOL_PARAMETER", function_symtable)
       IN  IF h[parameter_node].type # "IDENTIFIER"
           THEN [st |-> st, res |-> "wrong node type"]
           ELSE IF made.ret = NULL THEN [st |-> st, res |-> "collision"]
           ELSE create_parameters(
                  [made.st EXCEPT !.symbols[made.ret].function_symtable =
                                     function_symtable],
                  h, parameter_list_node, i + 1, function_symtable)

\* A bug to tell C5 by: a declaration list is read from its end.
RECURSIVE identifier_items_backwards(_, _, _, _)
identifier_items_backwards(h, identifier_list_node, j, node) ==
  IF j >= h[identifier_list_node].n_children THEN <<>>
  ELSE LET identifier_node == h[identifier_list_node].children[j + 1]
       IN  identifier_items_backwards(h, identifier_list_node, j + 1, node)
           \o <<[node |-> node, name |-> h[identifier_node].data,
                 type |-> "SYMBOL_LOCAL_VAR"]>>

\* the identifiers of one declaration list of a BLOCK, the symbol node being
\* the BLOCK
RECURSIVE identifier_items(_, _, _, _)
identifier_items(h, identifier_list_node, j, node) ==
  IF j >= h[identifier_list_node].n_children THEN <<>>
  ELSE LET identifier_node == h[identifier_list_node].children[j + 1]
       IN  <<[node |-> node, name |-> h[identifier_node].data,
              type |-> "SYMBOL_LOCAL_VAR"]>>
           \o identifier_items(h, identifier_list_node, j + 1, node)

\* A bug to tell C1 by: only the first declaration list of a BLOCK is read.
local_items_first_list(h, node, i) ==
  LET first_child == h[node].children[1]
  IN  IF i >= 1 \/ i >= h[first_child].n_children THEN <<>>
      ELSE identifier_items(h, h[first_child].children[i + 1], 0, node)

\* the locals a BLOCK with two children declares: every identifier of every
\* list of its first child, the symbol node being the BLOCK
RECURSIVE local_items(_, _, _)
local_items(h, node, i) ==
  LET first_child == h[node].children[1]
  IN  IF i >= h[first_child].n_children THEN <<>>
      ELSE identifier_items(h, h[first_child].children[i + 1], 0, node)
           \o local_items(h, node, i + 1)

(***************************************************************************)
(* symbols.c: add_string.                                                  *)
(***************************************************************************)
\* A bug to tell C6 by: a text already in the list is not added again.
add_string_once(list, len, capacity, string) ==
  LET same == {k \in 1..len : list[k].string = string.string}
  IN  IF same # {}
      THEN [string_list |-> list, string_list_capacity |-> capacity,
            string_list_len |-> len, ret |-> (CHOOSE k \in same : TRUE) - 1]
      ELSE [string_list |-> Append(list, string),
            string_list_capacity |->
              IF len + 1 >= capacity THEN capacity * 2 + 8 ELSE capacity,
            string_list_len |-> len + 1,
            ret |-> len]

\* A bug to tell C30 by: the list grows only once it is more than full.
add_string_grows_late(list, len, capacity, string) ==
  [string_list |-> Append(list, string),
   string_list_capacity |->
     IF len > capacity THEN capacity * 2 + 8 ELSE capacity,
   string_list_len |-> len + 1,
   ret |-> len]

add_string(list, len, capacity, string) ==
  [string_list |-> Append(list, string),
   string_list_capacity |->
     IF len + 1 >= capacity THEN capacity * 2 + 8 ELSE capacity,
   string_list_len |-> len + 1,
   ret |-> len]

(***************************************************************************)
(* symbols.c: create_tables, find_globals.                                 *)
(***************************************************************************)
SetSymTab(st) ==
  /\ symbols' = st.symbols
  /\ tables' = st.tables
  /\ hashmaps' = st.hashmaps

Exit(message) ==
  /\ pc' = "exit_failure"
  /\ error' = message

\* create_tables calls find_globals, which makes the global table
create_tables ==
  /\ pc = "removed"
  /\ LET st == symbol_table_init(SymTab)
     IN  /\ SetSymTab(st)
         /\ global_symbols' = Len(st.tables)
  /\ pc' = "find_globals"
  /\ loop_i' = 0
  /\ UNCHANGED <<dfa, output, tree, stack, call, strings, error>>

\* find_globals, one round of its loop: a GLOBAL_DECLARATION
FindGlobalDeclaration ==
  /\ pc = "find_globals"
  /\ loop_i < nodes[root].n_children
  /\ LET global_child_node == nodes[root].children[loop_i + 1]
     IN  /\ nodes[global_child_node].type = "GLOBAL_DECLARATION"
         /\ IF nodes[global_child_node].n_children < 1
            THEN /\ Exit("Error when inserting global symbol: wrong format of global declaration node!")
                 /\ UNCHANGED <<dfa, output, symtab, loop_i>>
            ELSE LET made == create_symbols(SymTab,
                               global_items(nodes,
                                 nodes[global_child_node].children[1], 0),
                               global_symbols)
                 IN  IF made.ok
                     THEN /\ SetSymTab(made.st)
                          /\ loop_i' = loop_i + 1
                          /\ UNCHANGED <<dfa, output, pc, error, global_symbols>>
                     ELSE /\ Exit("Error creating global variable symbol")
                          /\ UNCHANGED <<dfa, output, symtab, loop_i>>
  /\ UNCHANGED <<dfa, output, tree, stack, call, strings>>

\* find_globals, one round of its loop: a FUNCTION
FindGlobalFunction ==
  /\ pc = "find_globals"
  /\ loop_i < nodes[root].n_children
  /\ LET global_child_node == nodes[root].children[loop_i + 1]
     IN  /\ nodes[global_child_node].type = "FUNCTION"
         /\ IF nodes[global_child_node].n_children < 1
            THEN /\ Exit("Error when inserting global symbol: wrong format of function node!")
                 /\ UNCHANGED <<dfa, output, symtab, loop_i>>
            ELSE LET function_identifier_node ==
                       nodes[global_child_node].children[1]
                     made == create_symbol(SymTab, global_child_node,
                               nodes[function_identifier_node].data,
                               "SYMBOL_FUNCTION", global_symbols)
                 IN  IF made.ret = NULL
                     THEN /\ Exit("Error creating global variable symbol")
                          /\ UNCHANGED <<dfa, output, symtab, loop_i>>
                     ELSE LET st1 == symbol_table_init(made.st)
                              function_symtable == Len(st1.tables)
                              function_hashmap ==
                                st1.tables[function_symtable].hashmap
                          IN  /\ SetSymTab(
                                   [st1 EXCEPT
                                      !.hashmaps[function_hashmap].backup =
                                         st1.tables[global_symbols].hashmap,
                                      !.symbols[made.ret].function_symtable =
                                         function_symtable])
                              /\ loop_i' = loop_i + 1
                              /\ UNCHANGED <<dfa, output, pc, error, global_symbols>>
  /\ UNCHANGED <<dfa, output, tree, stack, call, strings>>

\* A bug to tell C18 by: the global declarations after the first function
\* are not entered before the bodies are bound.
FindGlobalsOther_to_first_function ==
  /\ pc = "find_globals"
  /\ IF /\ loop_i < nodes[root].n_children
        /\ \A k \in 1..Len(symbols) : symbols[k].type # "SYMBOL_FUNCTION"
     THEN /\ nodes[nodes[root].children[loop_i + 1]].type
               \notin {"GLOBAL_DECLARATION", "FUNCTION"}
          /\ loop_i' = loop_i + 1
          /\ UNCHANGED pc
     ELSE /\ pc' = "create_tables"
          /\ loop_i' = 0
  /\ UNCHANGED <<dfa, output, tree, stack, call, symtab, strings, error>>

\* find_globals: any other child is skipped; after the last one the loop of
\* create_tables over the global symbols begins
FindGlobalsOther ==
  /\ pc = "find_globals"
  /\ IF loop_i < nodes[root].n_children
     THEN /\ nodes[nodes[root].children[loop_i + 1]].type
               \notin {"GLOBAL_DECLARATION", "FUNCTION"}
          /\ loop_i' = loop_i + 1
          /\ UNCHANGED pc
     ELSE /\ pc' = "create_tables"
          /\ loop_i' = 0
  /\ UNCHANGED <<dfa, output, tree, stack, call, symtab, strings, error>>

\* create_tables, one round of its loop: for a function, the parameters are
\* declared and bind_names is called on the body
CreateTablesNext ==
  /\ pc = "create_tables"
  /\ IF loop_i >= Len(tables[global_symbols].symbols)
     THEN /\ pc' = "bound"
          /\ UNCHANGED <<dfa, output, loop_i, symtab, stack, error>>
     ELSE LET symbol == tables[global_symbols].symbols[loop_i + 1]
              function_symtable == symbols[symbol].function_symtable
              function_node == symbols[symbol].node
          IN  IF symbols[symbol].type # "SYMBOL_FUNCTION"
              THEN /\ loop_i' = loop_i + 1
                   /\ UNCHANGED <<dfa, output, pc, symtab, stack, error>>
              ELSE IF nodes[function_node].n_children < 3
              THEN /\ Exit("Error when binding local symbols: wrong format of function node!")
                   /\ UNCHANGED <<dfa, output, loop_i, symtab, stack>>
              ELSE LET parameter_list_node == nodes[function_node].children[2]
                       made == create_parameters(SymTab, nodes,
                                 parameter_list_node, 0, function_symtable)
                   IN  IF made.res = "wrong node type"
                       THEN /\ Exit("Error when binding local symbols: wrong node type on parameter!")
                            /\ UNCHANGED <<dfa, output, loop_i, symtab, stack>>
                       ELSE IF made.res = "collision"
                       THEN /\ Exit("Error when creating function parameter symbol!")
                            /\ UNCHANGED <<dfa, output, loop_i, symtab, stack>>
                       ELSE /\ SetSymTab(made.st)
                            /\ stack' = <<[local_symbols |-> function_symtable,
                                           node |-> nodes[function_node].children[3],
                                           i |-> 0, entered |-> FALSE,
                                           scope_hashmap |-> NULL,
                                           new_hashmap |-> NULL]>>
                            /\ pc' = "bind_names"
                            /\ UNCHANGED <<dfa, output, loop_i, error, global_symbols>>
  /\ UNCHANGED <<dfa, output, tree, call, strings>>

(***************************************************************************)
(* symbols.c: bind_names.  A frame is one activation: local_symbols, node, *)
(* the local scope_hashmap read on entry, new_hashmap of a BLOCK, and the  *)
(* index i of the child loop.                                              *)
(***************************************************************************)
BindEnter(type) ==
  /\ pc = "bind_names"
  /\ ~Top.entered
  /\ Top.node # NULL
  /\ nodes[Top.node].type = type

\* the activation returns; the caller goes on with its next child, and
\* create_tables with its next symbol
BindReturn(new_stack) ==
  /\ call' = [fn |-> "bind_names", node |-> Top.node, ret |-> NULL]
  /\ IF Len(new_stack) = 1
     THEN /\ stack' = <<>>
          /\ pc' = "create_tables"
          /\ loop_i' = loop_i + 1
     ELSE /\ stack' = [SubSeq(new_stack, 1, Len(new_stack) - 1)
                         EXCEPT ![Len(new_stack) - 1].i = @ + 1]
          /\ UNCHANGED <<dfa, output, pc, loop_i>>

BindNull ==
  /\ pc = "bind_names"
  /\ Top.node = NULL
  /\ BindReturn(stack)
  /\ UNCHANGED <<dfa, output, tree, symtab, strings, error>>

\* case BLOCK, up to the loops over the statements: push the scope and
\* declare the locals
BindBlock ==
  /\ BindEnter("BLOCK")
  /\ LET local_symbols == Top.local_symbols
         scope_hashmap == tables[local_symbols].hashmap
         st1 == symbol_hashmap_init(SymTab)
         new_hashmap == Len(st1.hashmaps)
         st2 == [st1 EXCEPT !.hashmaps[new_hashmap].backup = scope_hashmap,
                            !.tables[local_symbols].hashmap = new_hashmap]
         declares == nodes[Top.node].n_children = 2
         made == IF declares
                 THEN create_symbols(st2, local_items(nodes, Top.node, 0),
                                     local_symbols)
                 ELSE [st |-> st2, ok |-> TRUE]
     IN  IF made.ok
         THEN /\ SetSymTab(made.st)
              /\ stack' = [stack EXCEPT ![Len(stack)] =
                             [@ EXCEPT !.entered = TRUE,
                                       !.scope_hashmap = scope_hashmap,
                                       !.new_hashmap = new_hashmap,
                                       !.i = IF declares THEN 1 ELSE 0]]
              /\ UNCHANGED <<dfa, output, pc, error>>
         ELSE /\ Exit("Error creating local variable symbol")
              /\ UNCHANGED <<dfa, output, symbols, tables, hashmaps, stack>>
  /\ UNCHANGED <<dfa, output, tree, call, loop_i, global_symbols, strings>>

\* A bug to tell C2 by: a name that is not found is bound to the first
\* symbol and binding goes on.
BindIdentifier_lenient ==
  /\ BindEnter("IDENTIFIER")
  /\ LET scope_hashmap == tables[Top.local_symbols].hashmap
         lookup_symbol == symbol_hashmap_lookup(SymTab, scope_hashmap,
                                                nodes[Top.node].data)
     IN  nodes' = [nodes EXCEPT ![Top.node].symbol =
                     IF lookup_symbol = NULL THEN 1 ELSE lookup_symbol]
  /\ BindReturn(stack)
  /\ UNCHANGED <<dfa, output, root, symtab, strings, error>>

\* case IDENTIFIER
BindIdentifier ==
  /\ BindEnter("IDENTIFIER")
  /\ LET scope_hashmap == tables[Top.local_symbols].hashmap
         lookup_symbol == symbol_hashmap_lookup(SymTab, scope_hashmap,
                                                nodes[Top.node].data)
     IN  IF lookup_symbol = NULL
         THEN /\ Exit("Error referencing identifier in assignment statement")
              /\ UNCHANGED <<dfa, output, nodes, stack, call, loop_i>>
         ELSE /\ nodes' = [nodes EXCEPT ![Top.node].symbol = lookup_symbol]
              /\ BindReturn(stack)
              /\ UNCHANGED error
  /\ UNCHANGED <<dfa, output, root, symtab, strings>>

\* case STRING_LITERAL
BindStringLiteral ==
  /\ BindEnter("STRING_LITERAL")
  /\ LET added == add_string(string_list, string_list_len,
                             string_list_capacity,
                             [string |-> nodes[Top.node].data,
                              owner |-> Top.node])
     IN  /\ string_list' = added.string_list
         /\ string_list_len' = added.string_list_len
         /\ string_list_capacity' = added.string_list_capacity
         /\ nodes' = [nodes EXCEPT ![Top.node].type = "STRING_LIST_REFERENCE",
                                   ![Top.node].data = added.ret]
  /\ BindReturn(stack)
  /\ UNCHANGED <<dfa, output, root, symtab, string_list_frees, error>>

\* default: straight to the loop over the children
BindDefault ==
  /\ pc = "bind_names"
  /\ ~Top.entered
  /\ Top.node # NULL
  /\ nodes[Top.node].type \notin {"BLOCK", "IDENTIFIER", "STRING_LITERAL"}
  /\ stack' = [stack EXCEPT ![Len(stack)] =
                 [@ EXCEPT !.entered = TRUE,
                           !.scope_hashmap = tables[Top.local_symbols].hashmap]]
  /\ UNCHANGED <<dfa, output, tree, pc, call, loop_i, symtab, strings, error>>

\* one round of a loop over the children: the recursive call
BindChild ==
  /\ pc = "bind_names"
  /\ Top.entered
  /\ Top.i < nodes[Top.node].n_children
  /\ stack' = Append(stack, [local_symbols |-> Top.local_symbols,
                             node |-> nodes[Top.node].children[Top.i + 1],
                             i |-> 0, entered |-> FALSE,
                             scope_hashmap |-> NULL, new_hashmap |-> NULL])
  /\ UNCHANGED <<dfa, output, tree, pc, call, loop_i, symtab, strings, error>>

\* A bug to tell C4 by: leaving a BLOCK, the map of the scope around it is
\* not put back.
BindLeave_keeps_scope ==
  /\ pc = "bind_names"
  /\ Top.entered
  /\ Top.i >= nodes[Top.node].n_children
  /\ IF nodes[Top.node].type = "BLOCK"
     THEN SetSymTab(symbol_hashmap_destroy(SymTab, Top.new_hashmap))
     ELSE UNCHANGED <<dfa, output, symbols, tables, hashmaps>>
  /\ BindReturn(stack)
  /\ UNCHANGED <<dfa, output, tree, global_symbols, strings, error>>

\* after the loop; a BLOCK restores the old map and destroys its own
BindLeave ==
  /\ pc = "bind_names"
  /\ Top.entered
  /\ Top.i >= nodes[Top.node].n_children
  /\ IF nodes[Top.node].type = "BLOCK"
     THEN SetSymTab(symbol_hashmap_destroy(
                      [SymTab EXCEPT !.tables[Top.local_symbols].hashmap =
                                        Top.scope_hashmap],
                      Top.new_hashmap))
     ELSE UNCHANGED <<dfa, output, symbols, tables, hashmaps>>
  /\ BindReturn(stack)
  /\ UNCHANGED <<dfa, output, tree, global_symbols, strings, error>>

(***************************************************************************)
(* generator.c: the code generator.  The output is kept as a listing of    *)
(* instructions, labels and directives, one record for each line that the  *)
(* macros of emit.h print.  A label is the tuple of its parts, an operand  *)
(* a record: a register, an immediate (as the 64 bits the assembler makes  *)
(* of it), disp(base), label(%rip), or (%rcx, %rax, 8).  The pushq of an   *)
(* evaluated argument carries <<call node, argument index>> in arg, which  *)
(* no instruction reads.  In the code of a binary operator the pushq of    *)
(* the left operand carries <<node, 0>>, the popq after the right operand  *)
(* <<node, 1>> and the last instruction <<node>>.                          *)
(***************************************************************************)
NUM_REGISTER_PARAMS == 6
REGISTER_PARAMS == <<"RDI", "RSI", "RDX", "RCX", "R8", "R9">>

\* A bug to tell C15 by: the children of the function node are counted.
FUNC_PARAM_COUNT_of_node(func) == nodes[symbols[func].node].n_children

FUNC_PARAM_COUNT(func) ==
  nodes[nodes[symbols[func].node].children[2]].n_children

find_max(a, b) == IF a > b THEN a ELSE b
find_min(a, b) == IF a < b THEN a ELSE b

Ins(op, a, b) == [op |-> op, a |-> a, b |-> b, arg |-> <<>>]
R(r) == [k |-> "reg", r |-> r]
Imm(n) == [k |-> "imm", v |-> IF n >= 0 THEN I64(n) ELSE Neg(I64(-n))]
Mem(disp, base) == [k |-> "mem", disp |-> disp, base |-> base]
Rip(label) == [k |-> "rip", label |-> label]
None == [k |-> "none"]

\* A bug to tell C13 by: the return address is not counted.
get_stack_offset_below_return_address(sequence_number, current_function) ==
  LET param_count == FUNC_PARAM_COUNT(current_function)
  IN  IF sequence_number < param_count
      THEN IF sequence_number > 5
           THEN (sequence_number - 5) * 8
           ELSE (sequence_number + 1) * (-8)
      ELSE (find_max(param_count, NUM_REGISTER_PARAMS)
              + (sequence_number - param_count) + 1) * (-8)

\* The products are computed in size_t and cut to int; for the counts of a
\* syntax tree that is the plain integer result.
get_stack_offset(sequence_number, current_function) ==
  LET param_count == FUNC_PARAM_COUNT(current_function)
  IN  IF sequence_number < param_count
      THEN IF sequence_number > 5
           THEN ((sequence_number - 5) * 8) + 8
           ELSE (sequence_number + 1) * (-8)
      ELSE LET num_of_callee_pushed_params ==
                 find_max(param_count, NUM_REGISTER_PARAMS)
           IN  (num_of_callee_pushed_params
                  + (sequence_number - param_count) + 1) * (-8)

\* A bug to tell C21 by: the comparison is made the other way round.
binary_operation_reversed(operator) ==
    CASE operator = "+" -> <<Ins("addq", R("RCX"), R("RAX"))>>
      [] operator = "-" -> <<Ins("subq", R("RAX"), R("RCX")),
                           Ins("movq", R("RCX"), R("RAX"))>>
      [] operator = "*" -> <<Ins("imulq", R("RCX"), R("RAX"))>>
      [] operator = "/" -> <<Ins("cqo", None, None),
                           Ins("movq", R("RAX"), R("R8")),
                           Ins("movq", R("RCX"), R("RAX")),
                           Ins("idivq", R("R8"), None)>>
      [] OTHER ->
           <<Ins("cmpq", R("RCX"), R("RAX"))>>
           \o (CASE operator = "<" -> <<Ins("setl", R("AL"), None)>>
                 [] operator = "<=" -> <<Ins("setle", R("AL"), None)>>
                 [] operator = ">" -> <<Ins("setg", R("AL"), None)>>
                 [] operator = ">=" -> <<Ins("setge", R("AL"), None)>>
                 [] operator = "==" -> <<Ins("sete", R("AL"), None)>>
                 [] operator = "!=" -> <<Ins("setne", R("AL"), None)>>
                 [] OTHER -> <<Ins("assert", None, None)>>)
           \o <<Ins("movzbq", R("AL"), R("RAX"))>>

\* the instructions that combine the left operand in RCX and the right
\* operand in RAX
binary_operation(operator) ==
    CASE operator = "+" -> <<Ins("addq", R("RCX"), R("RAX"))>>
      [] operator = "-" -> <<Ins("subq", R("RAX"), R("RCX")),
                           Ins("movq", R("RCX"), R("RAX"))>>
      [] operator = "*" -> <<Ins("imulq", R("RCX"), R("RAX"))>>
      [] operator = "/" -> <<Ins("cqo", None, None),
                           Ins("movq", R("RAX"), R("R8")),
                           Ins("movq", R("RCX"), R("RAX")),
                           Ins("idivq", R("R8"), None)>>
      [] OTHER ->
           <<Ins("cmpq", R("RAX"), R("RCX"))>>
           \o (CASE operator = "<" -> <<Ins("setl", R("AL"), None)>>
                 [] operator = "<=" -> <<Ins("setle", R("AL"), None)>>
                 [] operator = ">" -> <<Ins("setg", R("AL"), None)>>
                 [] operator = ">=" -> <<Ins("setge", R("AL"), None)>>
                 [] operator = "==" -> <<Ins("sete", R("AL"), None)>>
                 [] operator = "!=" -> <<Ins("setne", R("AL"), None)>>
                 [] OTHER -> <<Ins("assert", None, None)>>)
           \o <<Ins("movzbq", R("AL"), R("RAX"))>>

RECURSIVE generate_expression(_, _)
RECURSIVE generate_function_call(_, _)
RECURSIVE generate_arguments(_, _, _)
RECURSIVE generate_arguments_left_to_right(_, _, _)

\* A bug to tell C14 by: the arguments are pushed from left to right.
generate_arguments_left_to_right(call_node, i, current_function) ==
  IF i < 0 THEN <<>>
  ELSE LET parameter_list_node == nodes[call_node].children[2]
           k == nodes[parameter_list_node].n_children - 1 - i
           param_node == nodes[parameter_list_node].children[k + 1]
       IN  generate_expression(param_node, current_function)
           \o <<[Ins("pushq", R("RAX"), None) EXCEPT !.arg = <<call_node, k>>]>>
           \o generate_arguments_left_to_right(call_node, i - 1,
                                               current_function)

\* the loop of generate_function_call over the arguments, from i down to 0
generate_arguments(call_node, i, current_function) ==
  IF i < 0 THEN <<>>
  ELSE LET parameter_list_node == nodes[call_node].children[2]
           param_node == nodes[parameter_list_node].children[i + 1]
       IN  generate_expression(param_node, current_function)
           \o <<[Ins("pushq", R("RAX"), None) EXCEPT !.arg = <<call_node, i>>]>>
           \o generate_arguments(call_node, i - 1, current_function)

generate_function_call(call_node, current_function) ==
  LET identifier_node == nodes[call_node].children[1]
      function_identifier_symbol == nodes[identifier_node].symbol
      parameter_list_node == nodes[call_node].children[2]
  IN  IF symbols[function_identifier_symbol].type # "SYMBOL_FUNCTION"
      THEN <<Ins("assert", None, None)>>
      ELSE LET param_count == FUNC_PARAM_COUNT(function_identifier_symbol)
               number_of_params_for_registers ==
                 find_min(param_count, NUM_REGISTER_PARAMS)
           IN  generate_arguments(call_node,
                                  nodes[parameter_list_node].n_children - 1,
                                  current_function)
               \o [j \in 1..number_of_params_for_registers |->
                     Ins("popq", R(REGISTER_PARAMS[j]), None)]
               \o <<[Ins("call",
                         <<".", symbols[function_identifier_symbol].name>>,
                         None) EXCEPT !.arg = <<call_node>>]>>

generate_expression(expression, current_function) ==
  IF expression = NULL THEN <<>>
  ELSE LET e == nodes[expression]
           type == e.type
       IN
    CASE type = "NUMBER_LITERAL" ->
           <<Ins("movq", [k |-> "imm", v |-> ToInt64(ToInt(e.data))], R("RAX"))>>
      [] type = "IDENTIFIER" ->
           IF symbols[e.symbol].type = "SYMBOL_GLOBAL_VAR"
           THEN <<Ins("movq", Rip(<<".", e.data>>), R("RAX"))>>
           ELSE LET offset == get_stack_offset(symbols[e.symbol].sequence_number,
                                               current_function)
                IN  <<Ins("movq", Mem(offset, "RBP"), R("RAX"))>>
      [] type = "ARRAY_INDEXING" ->
           LET array_identifier_node == e.children[1]
               index_node == e.children[2]
           IN  <<Ins("pushq", R("RCX"), None)>>
               \o generate_expression(index_node, current_function)
               \o <<Ins("leaq", Rip(<<".", nodes[array_identifier_node].data>>),
                        R("RCX")),
                    Ins("leaq", [k |-> "index"], R("RCX")),
                    Ins("movq", Mem(0, "RCX"), R("RAX")),
                    Ins("popq", R("RCX"), None)>>
      [] type = "OPERATOR" /\ e.n_children > 1 ->
           LET operation == binary_operation(e.data)
           IN  generate_expression(e.children[1], current_function)
               \o <<[Ins("pushq", R("RAX"), None) EXCEPT
                       !.arg = <<expression, 0>>]>>
               \o generate_expression(e.children[2], current_function)
               \o <<[Ins("popq", R("RCX"), None) EXCEPT
                       !.arg = <<expression, 1>>]>>
               \o [operation EXCEPT ![Len(operation)].arg = <<expression>>]
      [] type = "OPERATOR" ->
           generate_expression(e.children[1], current_function)
           \o (CASE e.data = "-" -> <<Ins("negq", R("RAX"), None)>>
                 [] e.data = "!" -> <<Ins("test", R("RAX"), R("RAX")),
                                      Ins("sete", R("AL"), None),
                                      Ins("movzbq", R("AL"), R("RAX"))>>
                 [] OTHER -> <<Ins("assert", None, None)>>)
      [] type = "FUNCTION_CALL" ->
           generate_function_call(expression, current_function)
      [] OTHER -> <<>>

generate_assignment_statement(statement, current_function) ==
  LET left_side == nodes[statement].children[1]
      right_side == nodes[statement].children[2]
  IN  generate_expression(right_side, current_function)
      \o IF nodes[left_side].type = "IDENTIFIER"
         THEN LET identifier_symbol == symbols[nodes[left_side].symbol]
              IN  IF identifier_symbol.type = "SYMBOL_GLOBAL_VAR"
                  THEN <<Ins("movq", R("RAX"),
                             Rip(<<".", identifier_symbol.name>>))>>
                  ELSE <<Ins("movq", R("RAX"),
                             Mem(get_stack_offset(identifier_symbol.sequence_number,
                                                  current_function), "RBP"))>>
         ELSE IF nodes[left_side].type # "ARRAY_INDEXING"
         THEN <<Ins("assert", None, None)>>
         ELSE LET array_identifier_symbol ==
                    symbols[nodes[nodes[left_side].children[1]].symbol]
                  index_node == nodes[left_side].children[2]
              IN  <<Ins("pushq", R("RAX"), None)>>
                  \o generate_expression(index_node, current_function)
                  \o <<Ins("pushq", R("RAX"), None),
                       Ins("leaq", Rip(<<".", array_identifier_symbol.name>>),
                           R("RCX")),
                       Ins("popq", R("RAX"), None),
                       Ins("leaq", [k |-> "index"], R("RCX")),
                       Ins("popq", R("RAX"), None),
                       Ins("movq", R("RAX"), Mem(0, "RCX"))>>

generate_print_statement(statement, current_function) ==
  LET list_node == nodes[statement].children[1]
      \* the loop over the items, from item i on
      RECURSIVE items(_)
      items(i) ==
        IF i >= nodes[list_node].n_children THEN <<>>
        ELSE LET child_node == nodes[list_node].children[i + 1]
             IN  (IF nodes[child_node].type = "STRING_LIST_REFERENCE"
                  THEN <<Ins("leaq", Rip(<<"strout">>), R("RDI")),
                         Ins("leaq", Rip(<<"string", nodes[child_node].data>>),
                             R("RSI"))>>
                  ELSE generate_expression(child_node, current_function)
                       \o <<Ins("leaq", Rip(<<"intout">>), R("RDI")),
                            Ins("movq", R("RAX"), R("RSI"))>>)
                 \o <<Ins("call", <<"safe_printf">>, None)>>
                 \o items(i + 1)
  IN  items(0)
      \o <<Ins("movq", Imm(10), R("RDI")), Ins("call", <<"putchar">>, None)>>

generate_return_statement(statement, current_function) ==
  generate_expression(nodes[statement].children[1], current_function)
  \o <<Ins("jmp", <<".", symbols[current_function].name, ".epilogue">>, None)>>

RECURSIVE generate_statement(_, _)
generate_statement(node, current_function) ==
  LET \* the closing loop over the children, from child i on
      RECURSIVE children(_)
      children(i) ==
        IF i >= nodes[node].n_children THEN <<>>
        ELSE generate_statement(nodes[node].children[i + 1], current_function)
             \o children(i + 1)
  IN  IF node = NULL THEN <<>>
      ELSE (CASE nodes[node].type = "ASSIGNMENT_STATEMENT" ->
                   generate_assignment_statement(node, current_function)
              [] nodes[node].type = "PRINT_STATEMENT" ->
                   generate_print_statement(node, current_function)
              [] nodes[node].type = "RETURN_STATEMENT" ->
                   generate_return_statement(node, current_function)
              [] nodes[node].type = "FUNCTION_CALL" ->
                   generate_function_call(node, current_function)
              [] OTHER -> <<>>)
           \o children(0)

generate_function(function) ==
  LET name == symbols[function].name
      no_of_params_to_push ==
        find_min(NUM_REGISTER_PARAMS, FUNC_PARAM_COUNT(function))
      function_symbols == tables[symbols[function].function_symtable].symbols
      locals == SelectSeq(function_symbols,
                          LAMBDA s : symbols[s].type = "SYMBOL_LOCAL_VAR")
  IN  <<Ins("label", <<".", name>>, None),
        Ins("pushq", R("RBP"), None),
        Ins("movq", R("RSP"), R("RBP"))>>
      \o [i \in 1..no_of_params_to_push |->
            Ins("pushq", R(REGISTER_PARAMS[i]), None)]
      \o [i \in 1..Len(locals) |-> Ins("pushq", Imm(0), None)]
      \o generate_statement(symbols[function].node, function)
      \o <<Ins("label", <<".", name, ".epilogue">>, None),
           Ins("movq", R("RBP"), R("RSP")),
           Ins("popq", R("RBP"), None),
           Ins("ret", None, None)>>

generate_stringtable ==
  <<Ins(".section", <<"rodata">>, None),
    Ins(".asciz", <<"intout">>, "%ld"),
    Ins(".asciz", <<"strout">>, "%s"),
    Ins(".asciz", <<"errout">>, "Wrong number of arguments")>>
  \o [i \in 1..string_list_len |->
        Ins(".asciz", <<"string", i - 1>>, string_list[i].string)]

\* no_of_elements * 8 is computed in int64_t and printed with %ld
generate_global_variables ==
  LET global == tables[global_symbols].symbols
      data == SelectSeq(global, LAMBDA s : symbols[s].type # "SYMBOL_FUNCTION")
  IN  <<Ins(".section", <<"bss">>, None), Ins(".align", Imm(8), None)>>
      \o [i \in 1..Len(data) |->
            LET symbol == symbols[data[i]]
                no_of_bytes ==
                  IF symbol.type = "SYMBOL_GLOBAL_ARRAY"
                  THEN Mul(nodes[nodes[symbol.node].children[2]].data, I64(8))
                  ELSE I64(8)
            IN  Ins(".zero", <<".", symbol.name>>, no_of_bytes)]

generate_safe_printf ==
  <<Ins("label", <<"safe_printf">>, None),
    Ins("pushq", R("RBP"), None),
    Ins("movq", R("RSP"), R("RBP")),
    Ins("andq", Imm(-16), R("RSP")),
    Ins("call", <<"printf">>, None),
    Ins("movq", R("RBP"), R("RSP")),
    Ins("popq", R("RBP"), None),
    Ins("ret", None, None)>>

generate_main(first) ==
  LET argc == R("RDI")
      argv == R("RSI")
      expected_args == FUNC_PARAM_COUNT(first)
      pops == find_min(expected_args, NUM_REGISTER_PARAMS)
  IN  <<Ins("label", <<"main">>, None),
        Ins("pushq", R("RBP"), None),
        Ins("movq", R("RSP"), R("RBP")),
        Ins("subq", Imm(1), argc),
        Ins("cmpq", Imm(expected_args), argc),
        Ins("jne", <<"ABORT">>, None)>>
      \o (IF expected_args = 0 THEN <<>>
          ELSE <<Ins("addq", Imm(expected_args * 8), argv),
                 Ins("movq", argc, R("RCX")),
                 Ins("label", <<"PARSE_ARGV">>, None),
                 Ins("pushq", argv, None),
                 Ins("pushq", R("RCX"), None),
                 Ins("movq", Mem(0, "RSI"), R("RDI")),
                 Ins("movq", Imm(0), R("RSI")),
                 Ins("movq", Imm(10), R("RDX")),
                 Ins("call", <<"strtol">>, None),
                 Ins("popq", R("RCX"), None),
                 Ins("popq", argv, None),
                 Ins("pushq", R("RAX"), None),
                 Ins("subq", Imm(8), argv),
                 Ins("loop", <<"PARSE_ARGV">>, None)>>
               \o [i \in 1..pops |-> Ins("popq", R(REGISTER_PARAMS[i]), None)])
      \o <<Ins("call", <<".", symbols[first].name>>, None),
           Ins("movq", R("RAX"), R("RDI")),
           Ins("call", <<"exit">>, None),
           Ins("label", <<"ABORT">>, None),
           Ins("leaq", Rip(<<"errout">>), R("RDI")),
           Ins("call", <<"puts">>, None),
           Ins("movq", Imm(1), R("RDI")),
           Ins("call", <<"exit">>, None)>>
      \o generate_safe_printf
      \o <<Ins(".globl", <<"main">>, None)>>

\* the loop of generate_program over the global symbols from i on
RECURSIVE generate_functions(_)
generate_functions(i) ==
  LET global == tables[global_symbols].symbols
  IN  IF i >= Len(global) THEN <<>>
      ELSE (IF symbols[global[i + 1]].type = "SYMBOL_FUNCTION"
            THEN generate_function(global[i + 1]) ELSE <<>>)
           \o generate_functions(i + 1)

\* A bug to tell C16 by: the last function is taken as the entry point.
generate_program_last_function ==
  /\ pc = "bound"
  /\ LET global == tables[global_symbols].symbols
         functions == SelectSeq(global,
                                LAMBDA s : symbols[s].type = "SYMBOL_FUNCTION")
         listing == generate_stringtable \o generate_global_variables
                      \o <<Ins(".text", None, None)>> \o generate_functions(0)
     IN  /\ assembly' = listing \o generate_main(functions[Len(functions)])
         /\ pc' = "generated"
  /\ UNCHANGED <<dfa, tree, stack, call, loop_i, symtab, strings, error, machine>>

generate_program ==
  /\ pc = "bound"
  /\ LET global == tables[global_symbols].symbols
         functions == SelectSeq(global,
                                LAMBDA s : symbols[s].type = "SYMBOL_FUNCTION")
         listing == generate_stringtable \o generate_global_variables
                      \o <<Ins(".text", None, None)>> \o generate_functions(0)
         failed(l) == \E k \in 1..Len(l) : l[k].op = "assert"
     IN  IF failed(listing) \/ Len(functions) = 0
         THEN /\ pc' = "sigabrt"
              /\ assembly' = listing
         ELSE LET all == listing \o generate_main(functions[1])
              IN  /\ assembly' = all
                  /\ pc' = IF failed(all) THEN "sigabrt" ELSE "generated"
  /\ UNCHANGED <<dfa, tree, stack, call, loop_i, symtab, strings, error, machine>>

(***************************************************************************)
(* The program that the listing is, run on x86-64 under the System V       *)
(* calling convention: the instructions the generator emits and the libc   *)
(* functions they call.  Registers and memory words are 8 bytes; memory is *)
(* the .bss words, then the stack, then the return address into the C      *)
(* runtime and the argv array; word k is at address 8 * k.  Strings have   *)
(* addresses of their own: listing line k of the string table is at        *)
(* StringAddress(k), argument i at ArgAddress(i).  What the                *)
(* platform leaves unspecified (the registers at entry to main other than  *)
(* argc and argv, the caller-saved registers after a libc call) is the     *)
(* value junk, either of Junk.                                             *)
(***************************************************************************)
\* the value of a word as an address or a count, -1 if it is out of range
ToNat(w) ==
  IF \A i \in 4..INT64_BYTES : w[i] = 0
  THEN w[1] + 256 * w[2] + 65536 * w[3] ELSE -1

\* the listing line of a label or of the directive that defines it, 0 if none
LabelIndex(label) ==
  LET lines == {k \in 1..Len(assembly) :
                  /\ assembly[k].op \in {"label", ".zero", ".asciz"}
                  /\ assembly[k].a = label}
  IN  IF lines = {} THEN 0 ELSE CHOOSE k \in lines : \A j \in lines : k <= j

\* words of .bss before listing line k
BssWords(k) ==
  LET zero == SelectSeq(SubSeq(assembly, 1, k), LAMBDA l : l.op = ".zero")
      RECURSIVE Words(_)
      Words(i) == IF i = 0 THEN 0 ELSE Words(i - 1) + ToNat(zero[i].b) \div 8
  IN  Words(Len(zero))

LabelAddress(label) ==
  LET k == LabelIndex(label)
  IN  IF k = 0 THEN -1
      ELSE IF assembly[k].op = ".zero" THEN 8 * (1 + BssWords(k - 1))
      ELSE StringAddress(k)

\* strtol(s, NULL, 10) of a string of an optional '-' and decimal digits,
\* short enough not to overflow; it stops at the first other character
RECURSIVE strtol_digits(_, _, _)
strtol_digits(s, i, acc) ==
  IF i > Len(s) \/ \A d \in 1..10 : Digits[d] # s[i] THEN acc
  ELSE LET d == CHOOSE d \in 1..10 : Digits[d] = s[i]
           acc1 == Add(Mul(acc, I64(10)), I64(d - 1))
       IN  IF Len(acc1) = INT64_BYTES THEN strtol_digits(s, i + 1, acc1) ELSE acc
strtol(s) ==
  IF Len(s) > 0 /\ s[1] = "-"
  THEN Neg(strtol_digits(s, 2, Zero(INT64_BYTES)))
  ELSE strtol_digits(s, 1, Zero(INT64_BYTES))

\* the process at the entry of main, called by the C runtime with argv
Run ==
  /\ pc = "generated"
  /\ \E argv \in Argvs, junk \in Junk :
       LET bss == BssWords(Len(assembly))
           top == bss + StackWords + 1
           CallNodes == {n \in 1..Len(nodes) : nodes[n].type = "FUNCTION_CALL"}
           Binary == {n \in 1..Len(nodes) :
                        nodes[n].type = "OPERATOR" /\ nodes[n].n_children > 1}
       IN  machine' =
             [Off EXCEPT
                !.status = "running",
                !.regs = [r \in Registers |->
                            CASE r = "RDI" -> I64(Len(argv) + 1)
                              [] r = "RSI" -> I64(8 * (top + 1))
                              [] r = "RSP" -> I64(8 * top)
                              [] OTHER -> junk],
                !.mem = Fill(Zero(INT64_BYTES), top)
                          \o [i \in 1..(Len(argv) + 1) |-> I64(ArgAddress(i - 1))]
                          \o <<Zero(INT64_BYTES)>>,
                !.rip = LabelIndex(<<"main">>),
                !.argv = <<<<"a", ".", "o", "u", "t">>>> \o argv,
                !.junk = junk,
                !.evaluated =
                  [c \in CallNodes \cup Binary |->
                     Fill(Zero(INT64_BYTES),
                          IF c \in Binary THEN 2
                          ELSE nodes[nodes[c].children[2]].n_children)]]
  /\ pc' = "running"
  /\ UNCHANGED <<dfa, tree, stack, call, loop_i, symtab, strings, error, assembly>>

\* one instruction
Step(m) ==
  LET ins == assembly[m.rip]
      next == [m EXCEPT !.rip = @ + 1]
      Valid(a) == a >= 8 /\ a % 8 = 0 /\ (a \div 8) <= Len(m.mem)
      AddressBytes(o) ==
        CASE o.k = "mem" -> Add(m.regs[o.base], Imm(o.disp).v)
          [] o.k = "index" -> Add(m.regs["RCX"], Mul(m.regs["RAX"], I64(8)))
          [] o.k = "rip" ->
               LET a == LabelAddress(o.label)
               IN  IF a < 0 THEN Fill(255, INT64_BYTES) ELSE I64(a)
      Faults(o) ==
        o.k \in {"mem", "index", "rip"} /\ ~Valid(ToNat(AddressBytes(o)))
      Get(o) ==
        CASE o.k = "reg" -> m.regs[o.r]
          [] o.k = "imm" -> o.v
          [] OTHER -> m.mem[ToNat(AddressBytes(o)) \div 8]
      Put(mm, o, v) ==
        IF o.k = "reg" THEN [mm EXCEPT !.regs[o.r] = v]
        ELSE [mm EXCEPT !.mem[ToNat(AddressBytes(o)) \div 8] = v]
      Halt(s) == [m EXCEPT !.status = s]
      sp == ToNat(m.regs["RSP"])
      Push(mm, v) ==
        [mm EXCEPT !.regs["RSP"] = I64(sp - 8), !.mem[(sp - 8) \div 8] = v]
      Jump(mm, label) ==
        IF LabelIndex(label) = 0 THEN Halt("undefined")
        ELSE [mm EXCEPT !.rip = LabelIndex(label)]
      Returned(mm, v) ==
        [mm EXCEPT !.rip = m.rip + 1,
                   !.regs = [r \in Registers |->
                               CASE r = "RAX" -> v
                                 [] r \in {"RBP", "RSP"} -> m.regs[r]
                                 [] OTHER -> m.junk]]
      Arith(v) ==
        IF Faults(ins.a) \/ Faults(ins.b) THEN Halt("sigsegv")
        ELSE Put(next, ins.b, v)
      Set(p) ==
        [next EXCEPT !.regs["RAX"] = <<IF p THEN 1 ELSE 0>> \o Tail(@)]
  IN
  CASE m.rip \notin 1..Len(assembly) -> Halt("sigsegv")
    [] ins.op \in {"label", ".section", ".asciz", ".align", ".zero", ".text",
                   ".globl"} -> next
    [] ins.op = "pushq" ->
         IF ~Valid(sp - 8) THEN Halt("sigsegv")
         ELSE LET pushed == Push(next, Get(ins.a))
              IN  IF Len(ins.arg) = 2
                  THEN [pushed EXCEPT
                          !.evaluated[ins.arg[1]][ins.arg[2] + 1] = Get(ins.a)]
                  ELSE pushed
    [] ins.op = "popq" ->
         IF ~Valid(sp) THEN Halt("sigsegv")
         ELSE LET popped == Put([next EXCEPT !.regs["RSP"] = I64(sp + 8)],
                                ins.a, m.mem[sp \div 8])
              IN  IF Len(ins.arg) = 2
                  THEN [popped EXCEPT
                          !.evaluated[ins.arg[1]][ins.arg[2] + 1] =
                            m.regs["RAX"]]
                  ELSE popped
    [] ins.op = "movq" -> Arith(Get(ins.a))
    [] ins.op = "leaq" -> Put(next, ins.b, AddressBytes(ins.a))
    [] ins.op = "addq" -> Arith(Add(Get(ins.b), Get(ins.a)))
    [] ins.op = "subq" -> Arith(Sub(Get(ins.b), Get(ins.a)))
    [] ins.op = "imulq" -> Arith(Mul(Get(ins.b), Get(ins.a)))
    [] ins.op = "andq" ->
         \* only $-16 is emitted: the low four bits are cleared
         Put(next, ins.b, <<Get(ins.b)[1] - (Get(ins.b)[1] % 16)>>
                            \o Tail(Get(ins.b)))
    [] ins.op = "negq" -> Put(next, ins.a, Neg(Get(ins.a)))
    [] ins.op = "cqo" ->
         [next EXCEPT !.regs["RDX"] =
            Fill(IF IsNeg(m.regs["RAX"]) THEN 255 ELSE 0, INT64_BYTES)]
    [] ins.op = "idivq" ->
         \* RDX:RAX by the operand; #DE if it is 0 or the quotient does not
         \* fit in 64 bits
         LET divisor == Get(ins.a)
             dividend == m.regs["RAX"] \o m.regs["RDX"]
             wide == divisor \o Fill(IF IsNeg(divisor) THEN 255 ELSE 0,
                                     INT64_BYTES)
         IN  IF IsZero(divisor) THEN Halt("sigfpe")
             ELSE LET q == SDiv(dividend, wide)
                      low == SubSeq(q, 1, INT64_BYTES)
                  IN  IF q # low \o Fill(IF IsNeg(low) THEN 255 ELSE 0,
                                         INT64_BYTES)
                      THEN Halt("sigfpe")
                      ELSE [next EXCEPT
                              !.regs["RAX"] = low,
                              !.regs["RDX"] =
                                SubSeq(Sub(dividend, Mul(q, wide)), 1,
                                       INT64_BYTES)]
    [] ins.op = "cmpq" ->
         [next EXCEPT !.flags = [zf |-> Get(ins.b) = Get(ins.a),
                                 lt |-> SLess(Get(ins.b), Get(ins.a))]]
    [] ins.op = "test" ->
         [next EXCEPT !.flags = [zf |-> IsZero(Get(ins.a)),
                                 lt |-> IsNeg(Get(ins.a))]]
    [] ins.op = "setl" -> Set(m.flags.lt)
    [] ins.op = "setle" -> Set(m.flags.lt \/ m.flags.zf)
    [] ins.op = "setg" -> Set(~m.flags.lt /\ ~m.flags.zf)
    [] ins.op = "setge" -> Set(~m.flags.lt)
    [] ins.op = "sete" -> Set(m.flags.zf)
    [] ins.op = "setne" -> Set(~m.flags.zf)
    [] ins.op = "movzbq" ->
         Put(next, ins.b, <<m.regs["RAX"][1]>> \o Zero(INT64_BYTES - 1))
    [] ins.op = "jmp" -> Jump(m, ins.a)
    [] ins.op = "jne" -> IF m.flags.zf THEN next ELSE Jump(m, ins.a)
    [] ins.op = "loop" ->
         LET rcx == Sub(m.regs["RCX"], I64(1))
         IN  IF IsZero(rcx) THEN [next EXCEPT !.regs["RCX"] = rcx]
             ELSE Jump([m EXCEPT !.regs["RCX"] = rcx], ins.a)
    [] ins.op = "ret" ->
         IF ~Valid(sp) THEN Halt("sigsegv")
         ELSE [m EXCEPT !.rip = ToNat(m.mem[sp \div 8]),
                        !.regs["RSP"] = I64(sp + 8)]
    [] ins.op = "call" ->
         CASE ins.a = <<"exit">> ->
                [m EXCEPT !.status = "exited", !.exit_status = m.regs["RDI"]]
           [] ins.a \in {<<"puts">>, <<"putchar">>} ->
                Returned([m EXCEPT !.out =
                            Append(@, <<ins.a[1], m.regs["RDI"]>>)], m.junk)
           [] ins.a = <<"printf">> ->
                Returned([m EXCEPT !.out =
                            Append(@, <<"printf", m.regs["RDI"],
                                        m.regs["RSI"]>>)], m.junk)
           [] ins.a = <<"strtol">> ->
                LET i == ToNat(m.regs["RDI"]) - ArgAddress(0)
                IN  IF i \notin 0..(Len(m.argv) - 1) THEN Halt("sigsegv")
                    ELSE Returned([m EXCEPT !.parsed = Append(@, i)],
                                  strtol(m.argv[i + 1]))
           [] OTHER ->
                IF ~Valid(sp - 8) THEN Halt("sigsegv")
                ELSE Jump([Push(m, I64(m.rip + 1)) EXCEPT !.site = ins.arg],
                          ins.a)
    [] OTHER -> Halt("sigill")

Execute ==
  /\ pc = "running"
  /\ machine.status = "running"
  /\ machine' = Step(machine)
  /\ UNCHANGED <<dfa, tree, pc, stack, call, loop_i, symtab, strings, error,
                 assembly>>

(***************************************************************************)
(* tree.c: destroy_syntax_tree; symbols.c: destroy_tables.  They run once  *)
(* each after the tables are made, in the order the caller picks.          *)
(***************************************************************************)
destroy_syntax_tree ==
  /\ pc \in {"bound", "generated", "tables_destroyed"}
  /\ nodes' = destroy_subtree(nodes, root)
  /\ root' = NULL
  /\ pc' = IF pc = "tables_destroyed" THEN "destroyed" ELSE "tree_destroyed"
  /\ UNCHANGED <<dfa, output, stack, call, loop_i, symtab, strings, error>>

\* symbol_table_destroy on each function's table from global symbol i on,
\* then on the global table; a table takes its current map with it
RECURSIVE destroy_symbol_tables(_, _)
destroy_symbol_tables(st, i) ==
  LET table == st.tables[global_symbols]
  IN  IF i < Len(table.symbols)
      THEN LET symbol == st.symbols[table.symbols[i + 1]]
               st1 == IF symbol.type = "SYMBOL_FUNCTION"
                      THEN symbol_hashmap_destroy(
                             st, st.tables[symbol.function_symtable].hashmap)
                      ELSE st
           IN  IF Len(st1.hashmaps) = Len(st.hashmaps)
               THEN destroy_symbol_tables(st1, i + 1) ELSE st
      ELSE symbol_hashmap_destroy(st, table.hashmap)

\* free(string_list[i]) from i on: the string is the allocation its node made
RECURSIVE destroy_string_list(_, _)
destroy_string_list(h, i) ==
  IF i < string_list_len
  THEN LET h1 == [h EXCEPT ![string_list[i + 1].owner].data_frees = @ + 1]
       IN  IF Len(h1) = Len(h) THEN destroy_string_list(h1, i + 1) ELSE h
  ELSE h

destroy_tables ==
  /\ pc \in {"bound", "generated", "tree_destroyed"}
  /\ SetSymTab(destroy_symbol_tables(SymTab, 0))
  /\ nodes' = destroy_string_list(nodes, 0)
  /\ string_list_frees' = string_list_frees + 1
  /\ pc' = IF pc = "tree_destroyed" THEN "destroyed" ELSE "tables_destroyed"
  /\ UNCHANGED <<dfa, output, root, stack, call, loop_i, global_symbols, string_list,
                 string_list_len, string_list_capacity, error>>

Next ==
  \/ constant_fold_syntax_tree
  \/ FoldChild
  \/ FoldOperator
  \/ FoldIf
  \/ FoldWhile
  \/ FoldDefault
  \/ remove_unreachable_code_syntax_tree
  \/ RemoveNextChild
  \/ RemoveCall
  \/ RemoveTruncate
  \/ RemoveDone
  \/ RemoveAfterBody
  \/ create_tables
  \/ FindGlobalDeclaration
  \/ FindGlobalFunction
  \/ FindGlobalsOther
  \/ CreateTablesNext
  \/ BindNull
  \/ BindBlock
  \/ BindIdentifier
  \/ BindStringLiteral
  \/ BindDefault
  \/ BindChild
  \/ BindLeave
  \/ generate_program
  \/ Run
  \/ Execute
  \/ destroy_syntax_tree
  \/ destroy_tables

Spec == Init /\ [][Next]_vars

(***************************************************************************)
(* table.c: the transition table of the line-recognising automaton of the  *)
(* first problem set, a program of its own.  The table is a global, zero   *)
(* before fillTable has run; the recogniser then follows it byte by byte:  *)
(* state is the current state, byte the byte read last, prev the state it  *)
(* was read in.                                                            *)
(***************************************************************************)
NSTATES == 14
START == 0
ACCEPT == 12
ERROR == 13

\* the character constants of table.c as bytes
Ord(ch) ==
  CASE ch = "\n" -> 10 [] ch = " " -> 32 [] ch = "-" -> 45 [] ch = "/" -> 47
    [] ch = "0" -> 48 [] ch = "9" -> 57 [] ch = ":" -> 58 [] ch = "=" -> 61
    [] ch = "d" -> 100 [] ch = "g" -> 103 [] ch = "o" -> 111
    [] ch = "x" -> 120 [] ch = "y" -> 121

\* the assignments table[i][ch] = v of fillTable after the loop that sets
\* every entry to ERROR, as <<i, ch, v>> in the order they are made
Assignments ==
  LET digits == Ord("9") - Ord("0") + 1
      digit(k) == Ord("0") + k - 1
  IN  << <<START, Ord(" "), START>>,
         <<START, Ord("\n"), ACCEPT>>,
         <<START, Ord("g"), 1>>,
         <<1, Ord("o"), 2>>,
         <<2, Ord("\n"), ACCEPT>>,
         <<2, Ord(" "), START>>,
         <<START, Ord("d"), 3>>,
         <<3, Ord("x"), 4>>,
         <<3, Ord("y"), 4>>,
         <<4, Ord("="), 5>>,
         <<5, Ord("-"), 6>> >>
      \o [k \in 1..(3 * digits) |->
            <<CASE k % 3 = 1 -> 5 [] k % 3 = 2 -> 6 [] OTHER -> 7,
              digit((k + 2) \div 3), 7>>]
      \o << <<7, Ord("\n"), ACCEPT>>,
            <<7, Ord(" "), START>> >>
      \o [k \in 1..(2 * digits) |->
            <<IF k % 2 = 1 THEN START ELSE 8, digit((k + 1) \div 2), 8>>]
      \o << <<8, Ord(":"), 9>>,
            <<9, Ord(" "), START>>,
            <<START, Ord("/"), 10>>,
            <<10, Ord("/"), 11>> >>
      \o [k \in 1..255 |-> <<11, k - 1, 11>>]
      \o << <<11, Ord("\n"), ACCEPT>> >>

\* the table a list of assignments leaves: the last one made to an entry
\* counts, an entry never assigned is ERROR
Assigned(assignments) ==
  [i \in 0..(NSTATES - 1) |->
     [ch \in 0..255 |->
        LET made == {k \in 1..Len(assignments) :
                       assignments[k][1] = i /\ assignments[k][2] = ch}
        IN  IF made = {} THEN ERROR
            ELSE assignments[CHOOSE k \in made : \A j \in made : j <= k][3]]]

\* A bug to tell C24 by: a line may end after the colon of a label.
FilledTable_label_ends_line ==
  Assigned(Assignments \o << <<9, Ord("\n"), ACCEPT>> >>)

FilledTable == Assigned(Assignments)

TableInit ==
  /\ transition_table = [i \in 0..(NSTATES - 1) |-> [ch \in 0..255 |-> 0]]
  /\ state = START
  /\ byte = 0
  /\ prev = START
  /\ pc = "table"
  /\ nodes = <<>>
  /\ root = NULL
  /\ stack = <<>>
  /\ call = NoCall
  /\ loop_i = 0
  /\ symbols = <<>>
  /\ tables = <<>>
  /\ hashmaps = <<>>
  /\ global_symbols = NULL
  /\ string_list = <<>>
  /\ string_list_len = 0
  /\ string_list_capacity = 0
  /\ string_list_frees = 0
  /\ error = ""
  /\ assembly = <<>>
  /\ machine = Off

fillTable ==
  /\ pc = "table"
  /\ transition_table' = FilledTable
  /\ pc' = "filled"
  /\ UNCHANGED <<state, byte, prev, output, tree, stack, call, loop_i, symtab,
                 strings, error>>

\* the recogniser reads one byte and follows the table
Read ==
  /\ pc = "filled"
  /\ \E ch \in 0..255 :
       /\ byte' = ch
       /\ prev' = state
       /\ state' = transition_table[state][ch]
  /\ UNCHANGED <<transition_table, pc, output, tree, stack, call, loop_i,
                 symtab, strings, error>>

TableNext ==
  \/ fillTable
  \/ Read

TableSpec == TableInit /\ [][TableNext]_vars

(***************************************************************************)
(* Static scoping, read off the tree alone: what each use of a name ought  *)
(* to refer to.                                                            *)
(***************************************************************************)
Binding == pc \in {"create_tables", "bind_names", "bound", "exit_failure"}
Ended == pc \in {"bound", "exit_failure"}

RECURSIVE Reach(_, _)
Reach(h, n) ==
  IF n = NULL THEN {}
  ELSE {n} \cup UNION {Reach(h, h[n].children[k]) : k \in 1..h[n].n_children}

Functions(h) ==
  {h[root].children[k] : k \in 1..h[root].n_children}
    \cap {n \in 1..Len(h) : h[n].type = "FUNCTION"}

Body(h, f) == h[f].children[3]

\* the blocks of f that declare locals
DeclaringBlocks(h, f) ==
  {b \in Reach(h, Body(h, f)) : h[b].type = "BLOCK" /\ h[b].n_children = 2}

\* the identifier nodes of the declaration lists of block b
Declared(h, b) ==
  UNION {{h[l].children[j] : j \in 1..h[l].n_children} :
           l \in {h[h[b].children[1]].children[k] :
                    k \in 1..h[h[b].children[1]].n_children}}

\* the identifier nodes of f's body that use a name
Uses(h, f) ==
  {u \in Reach(h, Body(h, f)) : h[u].type = "IDENTIFIER"}
    \ UNION {Declared(h, b) : b \in DeclaringBlocks(h, f)}

Parameters(h, f) ==
  {h[h[f].children[2]].children[k] : k \in 1..h[h[f].children[2]].n_children}

\* the global declarations: [node, name, type]
Globals(h) ==
  {[node |-> f, name |-> h[h[f].children[1]].data, type |-> "SYMBOL_FUNCTION"] :
     f \in Functions(h)}
  \cup UNION
    {{[node |-> d,
       name |-> IF h[d].type = "IDENTIFIER" THEN h[d].data
                ELSE h[h[d].children[1]].data,
       type |-> IF h[d].type = "IDENTIFIER" THEN "SYMBOL_GLOBAL_VAR"
                ELSE "SYMBOL_GLOBAL_ARRAY"] :
        d \in {h[h[g].children[1]].children[j] :
                 j \in 1..h[h[g].children[1]].n_children}} :
     g \in {h[root].children[k] : k \in 1..h[root].n_children}
             \cap {n \in 1..Len(h) : h[n].type = "GLOBAL_DECLARATION"}}

\* the blocks of f that declare the name of u and have u among their
\* statements
Enclosing(h, f, u) ==
  {b \in DeclaringBlocks(h, f) :
     /\ u \in Reach(h, h[b].children[2])
     /\ \E d \in Declared(h, b) : h[d].data = h[u].data}

\* the declaration the use u in f refers to: [node, type], node NULL if none
Resolve(h, f, u) ==
  LET blocks == Enclosing(h, f, u)
      params == {q \in Parameters(h, f) : h[q].data = h[u].data}
      globals == {g \in Globals(h) : g.name = h[u].data}
  IN  IF blocks # {}
      THEN [node |-> CHOOSE b \in blocks :
                       \A c \in blocks : b \in Reach(h, c),
            type |-> "SYMBOL_LOCAL_VAR"]
      ELSE IF params # {}
      THEN [node |-> CHOOSE q \in params : \A r \in params : q <= r,
            type |-> "SYMBOL_PARAMETER"]
      ELSE IF globals # {}
      THEN LET g == CHOOSE g \in globals : \A k \in globals : g.node <= k.node
           IN  [node |-> g.node, type |-> g.type]
      ELSE [node |-> NULL, type |-> "none"]

\* no use of a name that nothing declares
Closed(h) == \A f \in Functions(h) : \A u \in Uses(h, f) : Resolve(h, f, u).node # NULL

\* some scope declares a name twice
TwiceIn(h, ids) == \E a \in ids : \E b \in ids : a # b /\ h[a].data = h[b].data
Duplicates(h) ==
  \/ \E a \in Globals(h) : \E b \in Globals(h) : a.node # b.node /\ a.name = b.name
  \/ \E f \in Functions(h) :
       \/ TwiceIn(h, Parameters(h, f))
       \/ \E b \in DeclaringBlocks(h, f) : TwiceIn(h, Declared(h, b))

CollisionErrors ==
  {"Error creating global variable symbol",
   "Error when creating function parameter symbol!",
   "Error creating local variable symbol"}

\* the nodes under n in the order a depth-first walk meets them
RECURSIVE Preorder(_, _)
RECURSIVE PreorderFrom(_, _, _)
Preorder(h, n) == IF n = NULL THEN <<>> ELSE <<n>> \o PreorderFrom(h, n, 1)
PreorderFrom(h, n, k) ==
  IF k > h[n].n_children THEN <<>>
  ELSE Preorder(h, h[n].children[k]) \o PreorderFrom(h, n, k + 1)

\* what f's table ought to hold: the parameters left to right, then the
\* locals as the walk of the body meets their declarations
ExpectedTable(h, f) ==
  LET blocks == DeclaringBlocks(h, f)
      IsParameter(n) == n \in Parameters(h, f)
      IsLocal(n) == \E b \in blocks : n \in Declared(h, b)
      params == SelectSeq(Preorder(h, h[f].children[2]), IsParameter)
      locals == SelectSeq(Preorder(h, Body(h, f)), IsLocal)
  IN  [k \in 1..(Len(params) + Len(locals)) |->
         IF k <= Len(params)
         THEN [name |-> h[params[k]].data, node |-> params[k],
               type |-> "SYMBOL_PARAMETER"]
         ELSE LET n == locals[k - Len(params)]
              IN  [name |-> h[n].data,
                   node |-> CHOOSE b \in blocks : n \in Declared(h, b),
                   type |-> "SYMBOL_LOCAL_VAR"]]

\* the symbol of function node f, NULL before find_globals made it
FunctionSymbol(f) ==
  LET made == {k \in 1..Len(symbols) :
                 symbols[k].type = "SYMBOL_FUNCTION" /\ symbols[k].node = f}
  IN  IF made = {} THEN NULL ELSE CHOOSE k \in made : TRUE

\* the string nodes of all function bodies, functions in declaration order,
\* each body depth first
RECURSIVE StringNodes(_, _)
StringNodes(h, k) ==
  LET IsString(n) == h[n].type \in {"STRING_LITERAL", "STRING_LIST_REFERENCE"}
  IN  IF k > h[root].n_children THEN <<>>
      ELSE (IF h[h[root].children[k]].type = "FUNCTION"
            THEN SelectSeq(Preorder(h, Body(h, h[root].children[k])), IsString)
            ELSE <<>>) \o StringNodes(h, k + 1)

(***************************************************************************)
(* Claims on symbol binding.                                               *)
(***************************************************************************)
AllBound(h) == \A f \in Functions(h) : \A u \in Uses(h, f) : h[u].symbol # NULL

\* C1, as stated: whenever every name used in a function body is declared
\* as a global, a function, a parameter or a local of an enclosing block,
\* create_tables ends without error and every use has a symbol attached.
C1_as_stated ==
  (Binding /\ Closed(nodes)) =>
    /\ pc # "exit_failure"
    /\ pc = "bound" => AllBound(nodes)

\* C1: whenever every name used in a function body is declared and no scope
\* declares a name twice, create_tables ends without error and every use of
\* a name in a function body has a non-null symbol attached.
C1_closed_programs_bind ==
  (Binding /\ Closed(nodes) /\ ~Duplicates(nodes)) =>
    /\ pc # "exit_failure"
    /\ pc = "bound" => AllBound(nodes)

C1_witness ==
  /\ pc = "bound"
  /\ Closed(nodes) /\ ~Duplicates(nodes) /\ AllBound(nodes)
  /\ \E f \in Functions(nodes) :
       \A type \in {"SYMBOL_LOCAL_VAR", "SYMBOL_PARAMETER", "SYMBOL_GLOBAL_ARRAY"} :
         \E u \in Uses(nodes, f) : symbols[nodes[u].symbol].type = type

\* C2: a use of a name that is declared neither in its block, nor in an
\* enclosing block, nor as a parameter, nor globally never gets a symbol,
\* and binding does not end well: it ends in exit(EXIT_FAILURE).
C2_undeclared_is_fatal ==
  Binding =>
    /\ \A f \in Functions(nodes) : \A u \in Uses(nodes, f) :
         Resolve(nodes, f, u).node = NULL => nodes[u].symbol = NULL
    /\ (Ended /\ ~Closed(nodes)) => pc = "exit_failure"

C2_witness ==
  /\ pc = "exit_failure"
  /\ error = "Error referencing identifier in assignment statement"
  /\ ~Closed(nodes)
  /\ \E f \in Functions(nodes) : \E u \in Uses(nodes, f) : nodes[u].symbol # NULL

\* C3: two declarations of one name in one scope (the global table, the
\* parameters of one function, the declaration list of one block) end
\* binding in exit(EXIT_FAILURE); unless an undeclared name was met first,
\* the error is the one printed after create_symbol returned NULL.
C3_duplicate_is_fatal ==
  (Ended /\ Duplicates(nodes)) =>
    /\ pc = "exit_failure"
    /\ Closed(nodes) => error \in CollisionErrors

C3_witness ==
  /\ pc = "exit_failure"
  /\ error = "Error creating local variable symbol"
  /\ \E f \in Functions(nodes) : \E b \in DeclaringBlocks(nodes, f) :
       /\ TwiceIn(nodes, Declared(nodes, b))
       /\ b # Body(nodes, f)
       /\ ~TwiceIn(nodes, Parameters(nodes, f))

\* C4: a name declared again in a nested block does not collide, and every
\* use is bound to the innermost declaration around it: inside the nested
\* block to the nested one, outside it to the outer one.
C4_innermost_declaration ==
  Binding =>
    /\ \A f \in Functions(nodes) : \A u \in Uses(nodes, f) :
         nodes[u].symbol # NULL =>
           LET declaration == Resolve(nodes, f, u)
               symbol == symbols[nodes[u].symbol]
           IN  /\ declaration.node # NULL
               /\ symbol.node = declaration.node
               /\ symbol.type = declaration.type
               /\ symbol.name = nodes[u].data
    /\ ~Duplicates(nodes) => error \notin CollisionErrors

C4_witness ==
  /\ pc = "bound"
  /\ \E f \in Functions(nodes) : \E inner \in Uses(nodes, f) :
     \E before \in Uses(nodes, f) : \E after \in Uses(nodes, f) :
       LET nested == symbols[nodes[inner].symbol].node
           outer == symbols[nodes[before].symbol].node
       IN  /\ nodes[inner].data = nodes[before].data
           /\ nodes[inner].data = nodes[after].data
           /\ symbols[nodes[inner].symbol].type = "SYMBOL_LOCAL_VAR"
           /\ symbols[nodes[before].symbol].type = "SYMBOL_LOCAL_VAR"
           /\ nodes[after].symbol = nodes[before].symbol
           /\ nested # outer
           /\ nested \in Reach(nodes, outer)
           /\ inner \in Reach(nodes, nested)
           /\ before < nested /\ after > nested
           /\ after \notin Reach(nodes, nested)
           /\ \E q \in Parameters(nodes, f) : nodes[q].data = nodes[inner].data

\* C5: the symbols of a function's table are numbered 0, 1, 2, ... in the
\* order of declaration: the parameters left to right, then the locals in
\* the order a pre-order walk of the body meets them; leaving a block does
\* not give a number back.
C5_sequence_numbers ==
  Binding =>
    \A f \in Functions(nodes) :
      FunctionSymbol(f) # NULL =>
        LET table == tables[symbols[FunctionSymbol(f)].function_symtable].symbols
            expected == ExpectedTable(nodes, f)
        IN  /\ Len(table) <= Len(expected)
            /\ pc = "bound" => Len(table) = Len(expected)
            /\ \A k \in 1..Len(table) :
                 /\ symbols[table[k]].sequence_number = k - 1
                 /\ symbols[table[k]].name = expected[k].name
                 /\ symbols[table[k]].node = expected[k].node
                 /\ symbols[table[k]].type = expected[k].type

C5_witness ==
  /\ pc = "bound"
  /\ \E a \in 1..Len(symbols) : \E b \in 1..Len(symbols) :
     \E q \in 1..Len(symbols) :
       /\ symbols[a].name = "x" /\ symbols[b].name = "x"
       /\ symbols[a].type = "SYMBOL_LOCAL_VAR"
       /\ symbols[b].type = "SYMBOL_LOCAL_VAR"
       /\ symbols[a].node \notin Reach(nodes, symbols[b].node)
       /\ symbols[b].node \notin Reach(nodes, symbols[a].node)
       /\ symbols[q].type = "SYMBOL_PARAMETER"
       /\ symbols[q].sequence_number = 0
       /\ symbols[a].sequence_number = 2
       /\ symbols[b].sequence_number = 3

\* C6: the string list only grows at its end, by the text of the literal
\* being bound; the k-th string literal met (functions in declaration order,
\* each body depth first) is at index k-1 and its node is a
\* STRING_LIST_REFERENCE with that index, equal texts included.
C6_pool_state ==
  Binding =>
    LET met == StringNodes(nodes, 1)
    IN  /\ Len(string_list) = string_list_len
        /\ string_list_len <= Len(met)
        /\ pc = "bound" => string_list_len = Len(met)
        /\ \A k \in 1..Len(met) :
             IF k <= string_list_len
             THEN /\ nodes[met[k]].type = "STRING_LIST_REFERENCE"
                  /\ nodes[met[k]].data = k - 1
                  /\ string_list[k].owner = met[k]
             ELSE nodes[met[k]].type = "STRING_LITERAL"

C6_pool_step ==
  /\ Len(string_list') \in {Len(string_list), Len(string_list) + 1}
  /\ \A k \in 1..Len(string_list) : string_list'[k] = string_list[k]
  /\ Len(string_list') > Len(string_list) =>
       LET added == string_list'[Len(string_list')]
       IN  /\ nodes[added.owner].type = "STRING_LITERAL"
           /\ added.string = nodes[added.owner].data

C6_string_pool == [](C6_pool_state) /\ [][C6_pool_step]_vars

C6_witness ==
  /\ pc = "bound"
  /\ string_list_len = 3
  /\ string_list[1].string = "hi"
  /\ string_list[2].string = "bye"
  /\ string_list[3].string = "hi"
  /\ nodes[string_list[1].owner].data = 0
  /\ nodes[string_list[3].owner].data = 2

(***************************************************************************)
(* Claims on constant folding and unreachable code.                        *)
(***************************************************************************)
\* the operator applied in int64_t arithmetic
Int64Result(operator, n_operands, a, b) ==
  CASE operator = "+" /\ n_operands = 2 -> Add(a, b)
    [] operator = "-" /\ n_operands = 2 -> Sub(a, b)
    [] operator = "*" /\ n_operands = 2 -> Mul(a, b)
    [] operator = "/" /\ n_operands = 2 -> SDiv(a, b)
    [] operator = "==" /\ n_operands = 2 -> Bool(a = b, INT64_BYTES)
    [] operator = "!=" /\ n_operands = 2 -> Bool(a # b, INT64_BYTES)
    [] operator = "<" /\ n_operands = 2 -> Bool(SLess(a, b), INT64_BYTES)
    [] operator = "<=" /\ n_operands = 2 -> Bool(~SLess(b, a), INT64_BYTES)
    [] operator = ">" /\ n_operands = 2 -> Bool(SLess(b, a), INT64_BYTES)
    [] operator = ">=" /\ n_operands = 2 -> Bool(~SLess(a, b), INT64_BYTES)
    [] operator = "-" /\ n_operands = 1 -> Neg(a)
    [] operator = "!" /\ n_operands = 1 -> Bool(a = I64(0), INT64_BYTES)

\* constant_fold_subtree is about to switch on an OPERATOR node whose
\* operands are all number literals, the divisor of a division not 0
FoldsOperator ==
  /\ pc = "folding"
  /\ Top.i = nodes[Top.node].n_children
  /\ nodes[Top.node].type = "OPERATOR"
  /\ \A k \in 1..nodes[Top.node].n_children :
       nodes[nodes[Top.node].children[k]].type = "NUMBER_LITERAL"
  /\ \/ nodes[Top.node].n_children = 2 /\ nodes[Top.node].data \in BinaryOperators
     \/ nodes[Top.node].n_children = 1 /\ nodes[Top.node].data \in UnaryOperators
  /\ nodes[Top.node].data = "/" =>
       nodes[nodes[Top.node].children[2]].data # I64(0)

\* C7, as stated: an OPERATOR node with number literals for operands and a
\* known operator folds to one NUMBER_LITERAL whose value is the operator
\* applied to the operands in 64-bit signed arithmetic.
C7_as_stated_step ==
  FoldsOperator =>
    LET n == nodes[Top.node]
        a == nodes[n.children[1]].data
        b == IF n.n_children = 2 THEN nodes[n.children[2]].data ELSE I64(0)
    IN  /\ pc' # "sigfpe"
        /\ call'.fn = "constant_fold_operator"
        /\ call'.ret \notin 1..Len(nodes)
        /\ nodes'[call'.ret].type = "NUMBER_LITERAL"
        /\ nodes'[call'.ret].n_children = 0
        /\ nodes'[call'.ret].data = Int64Result(n.data, n.n_children, a, b)

C7_as_stated == [][C7_as_stated_step]_vars

\* C8: an IF_STATEMENT whose folded condition is a number literal c is
\* replaced by its then-branch if c # 0, by its else-branch if c = 0 and
\* there is one, by NULL otherwise; the branch returned is not touched, the
\* rest of the statement is freed.
C8_step ==
  (/\ pc = "folding"
   /\ Top.i = nodes[Top.node].n_children
   /\ nodes[Top.node].type = "IF_STATEMENT"
   /\ nodes[nodes[Top.node].children[1]].type = "NUMBER_LITERAL") =>
    LET n == nodes[Top.node]
        c == nodes[n.children[1]].data
        taken == IF \E k \in 1..INT64_BYTES : c[k] # 0 THEN n.children[2]
                 ELSE IF n.n_children = 3 THEN n.children[3] ELSE NULL
        kept == Reach(nodes, taken)
    IN  /\ call'.fn = "constant_fold_if"
        /\ call'.ret = taken
        /\ IF Len(stack) = 1 THEN root' = taken
           ELSE nodes'[stack[Len(stack) - 1].node]
                  .children[stack[Len(stack) - 1].i + 1] = taken
        /\ \A m \in kept : nodes'[m] = nodes[m] /\ nodes[m].frees = 0
        /\ \A m \in Reach(nodes, Top.node) \ kept :
             nodes[m].frees = 0 /\ nodes'[m].frees = 1

C8_if_folding == [][C8_step]_vars

\* if (0) A else B was folded to B, B being more than one node
C8_witness ==
  /\ call.fn = "constant_fold_if"
  /\ call.ret \notin {NULL, call.node}
  /\ nodes[call.node].n_children = 3
  /\ nodes[nodes[call.node].children[1]].data = I64(0)
  /\ nodes[call.node].children[3] = NULL
  /\ nodes[call.node].frees = 1
  /\ nodes[nodes[call.node].children[2]].frees = 1
  /\ nodes[call.ret].frees = 0
  /\ nodes[call.ret].n_children > 0

\* C9: a WHILE_STATEMENT is removed (NULL returned, the loop freed) exactly
\* when its folded condition is the number literal 0; otherwise the same
\* node is returned and nothing of it changes.
C9_step ==
  (/\ pc = "folding"
   /\ Top.i = nodes[Top.node].n_children
   /\ nodes[Top.node].type = "WHILE_STATEMENT") =>
    LET condition_node == nodes[Top.node].children[1]
        zero == /\ nodes[condition_node].type = "NUMBER_LITERAL"
                /\ \A k \in 1..INT64_BYTES : nodes[condition_node].data[k] = 0
    IN  /\ call'.fn = "constant_fold_while"
        /\ call'.ret = IF zero THEN NULL ELSE Top.node
        /\ IF Len(stack) = 1 THEN root' = call'.ret
           ELSE nodes'[stack[Len(stack) - 1].node]
                  .children[stack[Len(stack) - 1].i + 1] = call'.ret
        /\ \A m \in Reach(nodes, Top.node) :
             /\ nodes[m].frees = 0
             /\ IF zero THEN nodes'[m].frees = 1 ELSE nodes'[m] = nodes[m]

C9_while_folding == [][C9_step]_vars

\* while (1) { break } stays
C9_witness ==
  /\ call.fn = "constant_fold_while"
  /\ call.ret = call.node
  /\ nodes[nodes[call.node].children[1]].type = "NUMBER_LITERAL"
  /\ nodes[nodes[call.node].children[1]].data = I64(1)
  /\ nodes[nodes[call.node].children[2]].type = "BREAK_STATEMENT"
  /\ nodes[call.node].frees = 0
  /\ call.node \in Reach(nodes, root)

\* a statement that is sure to divert control: return, break, an if whose
\* two branches both divert, a block with such a statement
RECURSIVE Diverting(_, _)
Diverting(h, n) ==
  IF n = NULL THEN FALSE
  ELSE CASE h[n].type \in {"RETURN_STATEMENT", "BREAK_STATEMENT"} -> TRUE
         [] h[n].type = "IF_STATEMENT" ->
              /\ h[n].n_children = 3
              /\ Diverting(h, h[n].children[2])
              /\ Diverting(h, h[n].children[3])
         [] h[n].type = "BLOCK" ->
              LET list == h[n].children[h[n].n_children]
              IN  \E k \in 1..h[list].n_children : Diverting(h, h[list].children[k])
         [] OTHER -> FALSE

\* C10: once remove_unreachable_code has returned from a BLOCK, its statement
\* list ends with the first statement that is sure to divert control (all
\* statements stay if there is none); the statements before are the same
\* nodes in the same places, and every node of the statements after it has
\* been freed once.
C10_state ==
  (/\ pc \in {"removing_body", "removed_body"}
   /\ call.fn = "remove_unreachable_code"
   /\ call.node # NULL
   /\ nodes[call.node].type = "BLOCK") =>
    LET list == nodes[nodes[call.node].children[nodes[call.node].n_children]]
        all == Len(list.children)
        diverting == {k \in 1..all : Diverting(nodes, list.children[k])}
        last == IF diverting = {} THEN all
                ELSE CHOOSE k \in diverting : \A j \in diverting : k <= j
    IN  /\ list.n_children = last
        /\ call.ret = (diverting # {})
        /\ \A k \in 1..all : \A m \in Reach(nodes, list.children[k]) :
             nodes[m].frees = IF k <= last THEN 0 ELSE 1

C10_step ==
  pc = "removing_body" =>
    \A n \in 1..Len(nodes) : nodes'[n].children = nodes[n].children

C10_block_truncation == [](C10_state) /\ [][C10_step]_vars

\* { print; return; print } has become { print; return }
C10_witness ==
  /\ pc = "removed_body"
  /\ call.fn = "remove_unreachable_code"
  /\ call.ret = TRUE
  /\ nodes[call.node].type = "BLOCK"
  /\ LET list == nodes[nodes[call.node].children[1]]
     IN  /\ Len(list.children) = 3
         /\ list.n_children = 2
         /\ nodes[list.children[1]].type = "PRINT_STATEMENT"
         /\ nodes[list.children[2]].type = "RETURN_STATEMENT"
         /\ nodes[list.children[3]].type = "PRINT_STATEMENT"
         /\ nodes[list.children[3]].frees = 1

(***************************************************************************)
(* Claims on the whole pipeline.                                           *)
(***************************************************************************)
\* a statement that may run a break that no while statement inside it catches
RECURSIVE Breaks(_, _)
Breaks(h, n) ==
  IF n = NULL THEN FALSE
  ELSE CASE h[n].type = "BREAK_STATEMENT" -> TRUE
         [] h[n].type = "IF_STATEMENT" ->
              \E k \in 2..h[n].n_children : Breaks(h, h[n].children[k])
         [] h[n].type = "BLOCK" ->
              LET list == h[n].children[h[n].n_children]
              IN  \E k \in 1..h[list].n_children : Breaks(h, h[list].children[k])
         [] OTHER -> FALSE

\* every path through the statement ends in a RETURN_STATEMENT
RECURSIVE Returns(_, _)
Returns(h, n) ==
  IF n = NULL THEN FALSE
  ELSE CASE h[n].type = "RETURN_STATEMENT" -> TRUE
         [] h[n].type = "IF_STATEMENT" ->
              /\ h[n].n_children = 3
              /\ Returns(h, h[n].children[2])
              /\ Returns(h, h[n].children[3])
         [] h[n].type = "BLOCK" ->
              LET list == h[n].children[h[n].n_children]
              IN  \E k \in 1..h[list].n_children :
                    /\ Returns(h, h[list].children[k])
                    /\ \A j \in 1..(k - 1) : ~Breaks(h, h[list].children[j])
         [] OTHER -> FALSE

\* C11, as stated: after remove_unreachable_code_syntax_tree every path
\* through every function body ends in a RETURN_STATEMENT, whatever the
\* statements of the body.
C11_as_stated ==
  pc = "removed" => \A f \in Functions(nodes) : Returns(nodes, Body(nodes, f))

GlobalTypes == {"SYMBOL_GLOBAL_VAR", "SYMBOL_GLOBAL_ARRAY", "SYMBOL_FUNCTION"}

\* C18: once find_globals is done, every top-level declaration has its
\* symbol in the global table, each function's own map falls back to the
\* global map, and so a use of a global variable, global array or function
\* declared after the function that uses it is not an error and is bound to
\* the global symbol.
C18_forward_references ==
  pc \in {"create_tables", "bind_names", "bound"} =>
    /\ \A g \in Globals(nodes) :
         \E k \in 1..Len(tables[global_symbols].symbols) :
           LET symbol == symbols[tables[global_symbols].symbols[k]]
           IN  symbol.node = g.node /\ symbol.name = g.name /\ symbol.type = g.type
    /\ \A f \in Functions(nodes) :
         /\ FunctionSymbol(f) # NULL
         /\ \A u \in Uses(nodes, f) :
              LET declaration == Resolve(nodes, f, u)
              IN  (declaration.type \in GlobalTypes /\ declaration.node > f) =>
                    /\ pc = "bound" => nodes[u].symbol # NULL
                    /\ nodes[u].symbol # NULL =>
                         /\ symbols[nodes[u].symbol].node = declaration.node
                         /\ symbols[nodes[u].symbol].type = declaration.type
                         /\ nodes[u].symbol \in
                              {tables[global_symbols].symbols[k] :
                                 k \in 1..Len(tables[global_symbols].symbols)}

\* the first function uses a variable, an array and a function that are all
\* declared after it
C18_witness ==
  /\ pc = "bound"
  /\ \E f \in Functions(nodes) :
       \A type \in GlobalTypes :
         \E u \in Uses(nodes, f) :
           /\ nodes[u].symbol # NULL
           /\ symbols[nodes[u].symbol].type = type
           /\ symbols[nodes[u].symbol].node > f
           /\ \A g \in Functions(nodes) : f <= g

\* the maps from m along the backup links
RECURSIVE Chain(_, _)
Chain(maps, m) == IF m = NULL THEN <<>> ELSE <<m>> \o Chain(maps, maps[m].backup)

\* the function of the body being bound, and the blocks bind_names is inside
BoundFunction == CHOOSE f \in Functions(nodes) : Body(nodes, f) = stack[1].node
OpenBlocks ==
  {k \in 1..Len(stack) : stack[k].entered /\ nodes[stack[k].node].type = "BLOCK"}

\* C19: while a body is bound the scope maps from the current one outwards
\* are one live map for each block bind_names is inside, then the function's
\* own map, then the global map; a map that was left is destroyed once and
\* never current again; after create_tables each function is back at its own
\* map.  A name declared only in blocks that are not around a use is not
\* visible to it: the use gets no symbol and binding ends in the error state.
C19_state ==
  /\ pc = "bind_names" =>
       LET table == tables[stack[1].local_symbols]
           chain == Chain(hashmaps, table.hashmap)
       IN  /\ Len(chain) = Cardinality(OpenBlocks) + 2
           /\ chain[Len(chain)] = tables[global_symbols].hashmap
           /\ \A k \in 1..Len(chain) : hashmaps[chain[k]].destroyed = 0
           /\ \A k \in 1..Len(table.symbols) :
                symbols[table.symbols[k]].type = "SYMBOL_PARAMETER" =>
                  table.symbols[k] \in
                    {hashmaps[chain[Len(chain) - 1]].entries[j] :
                       j \in 1..Len(hashmaps[chain[Len(chain) - 1]].entries)}
           /\ \A m \in 1..Len(hashmaps) :
                hashmaps[m].destroyed =
                  IF \E t \in 1..Len(tables) :
                       \E k \in 1..Len(Chain(hashmaps, tables[t].hashmap)) :
                         Chain(hashmaps, tables[t].hashmap)[k] = m
                  THEN 0 ELSE 1
  /\ pc \in {"create_tables", "bound"} =>
       \A t \in 1..Len(tables) :
         /\ hashmaps[tables[t].hashmap].destroyed = 0
         /\ t # global_symbols =>
              hashmaps[tables[t].hashmap].backup = tables[global_symbols].hashmap
         /\ \A k \in 1..Len(tables[t].symbols) :
              symbols[tables[t].symbols[k]].type # "SYMBOL_LOCAL_VAR" =>
                tables[t].symbols[k] \in
                  {hashmaps[tables[t].hashmap].entries[j] :
                     j \in 1..Len(hashmaps[tables[t].hashmap].entries)}
  /\ Binding =>
       \A f \in Functions(nodes) : \A u \in Uses(nodes, f) :
         (/\ Resolve(nodes, f, u).node = NULL
          /\ \E b \in DeclaringBlocks(nodes, f) :
               \E d \in Declared(nodes, b) : nodes[d].data = nodes[u].data) =>
           /\ nodes[u].symbol = NULL
           /\ pc # "bound"

C19_step ==
  \A m \in 1..Len(hashmaps) :
    /\ hashmaps'[m].backup = hashmaps[m].backup
    /\ hashmaps'[m].destroyed >= hashmaps[m].destroyed

C19_scope_balance == [](C19_state) /\ [][C19_step]_vars

\* binding stops at a use of a name that only a block already left declares
C19_witness ==
  /\ pc = "exit_failure"
  /\ error = "Error referencing identifier in assignment statement"
  /\ nodes[Top.node].type = "IDENTIFIER"
  /\ \E b \in DeclaringBlocks(nodes, BoundFunction) :
       /\ b < Top.node
       /\ Top.node \notin Reach(nodes, b)
       /\ hashmaps[Len(hashmaps)].destroyed = 1
       /\ \E d \in Declared(nodes, b) : nodes[d].data = nodes[Top.node].data
  /\ \E k \in 1..Len(stack) : nodes[stack[k].node].type = "RETURN_STATEMENT"

\* the nodes that own a string: identifiers and string literals, the latter
\* STRING_LIST_REFERENCE nodes once bind_names moved the string to the pool
Payloads(h) ==
  {n \in 1..Len(h) :
     h[n].type \in {"IDENTIFIER", "STRING_LITERAL", "STRING_LIST_REFERENCE"}}
Pooled == {string_list[k].owner : k \in 1..Len(string_list)}

\* C17: no node, child array or string is ever released twice; between the
\* passes nothing that was released is reachable from the root, so the
\* branch if-folding returned is alive in its new place; destroy_syntax_tree
\* leaves the pooled strings alone and destroy_tables releases exactly those;
\* once both have run every node ever allocated, with its child array and
\* the string it owned, has been released exactly once.
C17_state ==
  /\ string_list_frees <= 1
  /\ \A n \in 1..Len(nodes) :
       /\ nodes[n].frees <= 1
       /\ nodes[n].data_frees <= 1
       /\ nodes[n].data_frees = 1 => n \in Payloads(nodes)
  /\ pc \in {"parsed", "folded", "removed", "create_tables", "bound",
            "exit_failure", "generated", "running", "tables_destroyed"} =>
       \A n \in Reach(nodes, root) :
         /\ nodes[n].frees = 0
         /\ nodes[n].data_frees =
              IF pc = "tables_destroyed" /\ n \in Pooled THEN 1 ELSE 0
  /\ pc = "destroyed" =>
       /\ root = NULL
       /\ string_list_frees = 1
       /\ \A n \in 1..Len(nodes) :
            /\ nodes[n].frees = 1
            /\ nodes[n].data_frees = IF n \in Payloads(nodes) THEN 1 ELSE 0
       /\ \A m \in 1..Len(hashmaps) : hashmaps[m].destroyed = 1

C17_step ==
  /\ root' = NULL /\ root # NULL =>
       \A n \in Pooled : nodes'[n].data_frees = nodes[n].data_frees
  /\ string_list_frees' # string_list_frees =>
       \A n \in 1..Len(nodes) :
         /\ nodes'[n].frees = nodes[n].frees
         /\ nodes'[n].data_frees =
              nodes[n].data_frees + IF n \in Pooled THEN 1 ELSE 0

C17_released_once == [](C17_state) /\ [][C17_step]_vars

\* everything is released, of a program that had nodes removed by the
\* optimizer and strings moved to the pool
C17_witness ==
  /\ pc = "destroyed"
  /\ Pooled # {}
  /\ \E n \in 1..Len(nodes) :
       nodes[n].type = "STRING_LITERAL" /\ nodes[n].frees = 1

(***************************************************************************)
(* Claims on the code generator.                                           *)
(***************************************************************************)
Generated == pc \in {"generated", "running"}
FunctionSymbols ==
  {s \in 1..Len(symbols) : symbols[s].type = "SYMBOL_FUNCTION"}
LocalsOf(f) ==
  {s \in 1..Len(symbols) :
     /\ symbols[s].type = "SYMBOL_LOCAL_VAR"
     /\ \E k \in 1..Len(tables[symbols[f].function_symtable].symbols) :
          tables[symbols[f].function_symtable].symbols[k] = s}

\* the pushes of the prologue of f in the listing: the lines after the
\* label, pushq %rbp and movq %rsp, %rbp up to the first that is no pushq;
\* the k-th of them fills the slot at -8 * k from the frame pointer
PrologueStart(f) == LabelIndex(<<".", symbols[f].name>>) + 3
ProloguePushes(f) ==
  LET first == PrologueStart(f)
      body == CHOOSE k \in first..Len(assembly) :
                /\ assembly[k].op # "pushq"
                /\ \A j \in first..(k - 1) : assembly[j].op = "pushq"
  IN  SubSeq(assembly, first, body - 1)
RegisterPushes(f) ==
  Cardinality({k \in 1..Len(ProloguePushes(f)) :
                 ProloguePushes(f)[k].a.k = "reg"})

\* C12, as stated: the offset get_stack_offset computes for a local variable
\* with sequence number s of a function with p parameters is
\* -8 * (min(6, p) + (s - p) + 1), the slot that the prologue of
\* generate_function filled with 0 for it.
C12_as_stated ==
  Generated =>
    \A f \in FunctionSymbols : \A local \in LocalsOf(f) :
      LET p == FUNC_PARAM_COUNT(f)
          s == symbols[local].sequence_number
          slot == RegisterPushes(f) + (s - p) + 1
      IN  /\ s >= p
          /\ slot <= Len(ProloguePushes(f))
          /\ ProloguePushes(f)[slot].a = Imm(0)
          /\ RegisterPushes(f) = IF p < 6 THEN p ELSE 6
          /\ get_stack_offset(s, f) = -8 * slot

\* the compiled program has just run the prologue of function g
BodyStart(g) == PrologueStart(g) + Len(ProloguePushes(g))
Entered(g) ==
  /\ pc = "running"
  /\ machine.status = "running"
  /\ machine.rip = BodyStart(g)

\* the call that led here: the entry wrapper, or a FUNCTION_CALL node of the
\* tree; the values its arguments were evaluated to, the first first
FromWrapper == machine.site = <<>>
ArgumentValues ==
  IF FromWrapper
  THEN [i \in 1..(Len(machine.argv) - 1) |-> strtol(machine.argv[i + 1])]
  ELSE machine.evaluated[machine.site[1]]

\* the word of the frame at this offset from the frame pointer
Frame(offset) ==
  machine.mem[ToNat(Add(machine.regs["RBP"], Imm(offset).v)) \div 8]

\* the calls with more than six arguments inside the arguments of the call
RECURSIVE CallsIn(_)
CallsIn(n) ==
  IF n = NULL THEN {}
  ELSE (IF nodes[n].type = "FUNCTION_CALL" THEN {n} ELSE {})
       \cup UNION {CallsIn(nodes[n].children[k]) : k \in 1..nodes[n].n_children}
WideCallsInArguments ==
  IF FromWrapper THEN {}
  ELSE {c \in CallsIn(nodes[machine.site[1]].children[2]) :
          nodes[nodes[c].children[2]].n_children > NUM_REGISTER_PARAMS}

ParametersAgree(g) ==
  LET p == FUNC_PARAM_COUNT(g)
  IN  Len(ArgumentValues) = p =>
        \A i \in 0..(p - 1) :
          /\ get_stack_offset(i, g) =
               IF i < 6 THEN -8 * (i + 1) ELSE 8 * (i - 5) + 8
          /\ i < 6 => ProloguePushes(g)[i + 1].a = R(REGISTER_PARAMS[i + 1])
          /\ Frame(get_stack_offset(i, g)) = ArgumentValues[i + 1]

CallLines == {k \in 1..Len(assembly) :
                assembly[k].op = "call" /\ Len(assembly[k].arg) = 1}
PushLine(k, i) ==
  LET c == assembly[k].arg[1]
      lines == {j \in 1..(k - 1) : assembly[j].arg = <<c, i>>}
  IN  IF lines = {} THEN 0 ELSE CHOOSE j \in lines : \A l \in lines : l <= j

\* the emitted call sequence: pushes of argument n-1 down to 0, min(6, n)
\* pops into the argument registers in order, the call of the label
CallSequence(k) ==
  LET c == assembly[k].arg[1]
      n == nodes[nodes[c].children[2]].n_children
      r == IF n < 6 THEN n ELSE 6
  IN  /\ assembly[k].a = <<".", nodes[nodes[c].children[1]].data>>
      /\ \A j \in 1..r :
           /\ assembly[k - r + j - 1].op = "popq"
           /\ assembly[k - r + j - 1].a = R(REGISTER_PARAMS[j])
      /\ \A i \in 0..(n - 1) :
           /\ PushLine(k, i) # 0
           /\ assembly[PushLine(k, i)].op = "pushq"
           /\ assembly[PushLine(k, i)].a = R("RAX")
           /\ i > 0 => PushLine(k, i) < PushLine(k, i - 1)
      /\ n > 0 => PushLine(k, 0) = k - r - 1

\* the machine is about to run the call at line k: the registers and the
\* stack hold the values the arguments were evaluated to
AtCall(k) ==
  pc = "running" /\ machine.status = "running" /\ machine.rip = k
ArgumentsPassed(k) ==
  LET c == assembly[k].arg[1]
      n == nodes[nodes[c].children[2]].n_children
  IN  \A i \in 0..(n - 1) :
        IF i < 6
        THEN machine.regs[REGISTER_PARAMS[i + 1]] = machine.evaluated[c][i + 1]
        ELSE machine.mem[ToNat(machine.regs["RSP"]) \div 8 + (i - 6)]
               = machine.evaluated[c][i + 1]

\* the calls with more than six arguments inside the arguments of call c, and
\* whether c has as many arguments as the function it names has parameters
WideCallsIn(c) ==
  {d \in CallsIn(nodes[c].children[2]) :
     nodes[nodes[d].children[2]].n_children > NUM_REGISTER_PARAMS}
ArityMatches(c) ==
  nodes[nodes[c].children[2]].n_children =
    FUNC_PARAM_COUNT(nodes[nodes[c].children[1]].symbol)

FirstFunction ==
  LET k == CHOOSE k \in 1..nodes[root].n_children :
             /\ nodes[nodes[root].children[k]].type = "FUNCTION"
             /\ \A j \in 1..(k - 1) :
                  nodes[nodes[root].children[j]].type # "FUNCTION"
  IN  nodes[root].children[k]
FirstSymbol == CHOOSE s \in FunctionSymbols : symbols[s].node = FirstFunction
Expected == nodes[nodes[FirstFunction].children[2]].n_children
Given == Len(machine.argv) - 1

\* the lines of the entry wrapper, and the lines of the functions
WrapperLines == LabelIndex(<<"main">>)..(LabelIndex(<<"safe_printf">>) - 1)
InFunction == machine.rip \in 1..(LabelIndex(<<"main">>) - 1)

\* C15: when the number of arguments is not the number of parameters of the
\* first function, the compiled program stays in the entry wrapper, moving
\* forward with every instruction, parses no argument, never enters a
\* function, and exits with status 1 after puts of the error message alone.
C15_state ==
  (pc = "running" /\ Given # Expected) =>
    /\ machine.status \in {"running", "exited"}
    /\ machine.rip \in WrapperLines
    /\ ~InFunction
    /\ machine.parsed = <<>>
    /\ machine.site = <<>>
    /\ Len(machine.out) <= 1
    /\ machine.status = "exited" =>
         /\ machine.exit_status = I64(1)
         /\ machine.out = <<<<"puts", I64(LabelAddress(<<"errout">>))>>>>
         /\ assembly[LabelIndex(<<"errout">>)].b = "Wrong number of arguments"

C15_step ==
  (pc = "running" /\ Given # Expected) =>
    machine'.rip > machine.rip \/ machine'.status = "exited"

C15_wrong_argument_count == [](C15_state) /\ [][C15_step]_vars

\* a program of one parameter, started with two arguments, has exited
C15_witness ==
  /\ pc = "running"
  /\ Given = 2
  /\ Expected = 1
  /\ machine.status = "exited"
  /\ machine.exit_status = I64(1)

\* the entry function is f(n) { return n * 2 }
Doubles ==
  LET body == nodes[FirstFunction].children[3]
      list == nodes[body].children[nodes[body].n_children]
      return == nodes[list].children[1]
      product == nodes[return].children[1]
  IN  /\ Expected = 1
      /\ nodes[list].n_children = 1
      /\ nodes[return].type = "RETURN_STATEMENT"
      /\ nodes[product].type = "OPERATOR"
      /\ nodes[product].data = "*"
      /\ nodes[nodes[product].children[1]].type = "IDENTIFIER"
      /\ symbols[nodes[nodes[product].children[1]].symbol].type
           = "SYMBOL_PARAMETER"
      /\ nodes[nodes[product].children[2]].type = "NUMBER_LITERAL"
      /\ nodes[nodes[product].children[2]].data = I64(2)

\* C16: when the count matches, the wrapper calls the first function of the
\* program, whatever is declared before it; the arguments are parsed from
\* the last to the first; on entry parameter i is the value of argument i;
\* the exit status is the value in the accumulator at the return; f(n)
\* { return n * 2 } started with 21 exits with 42.
C16_state ==
  /\ Generated =>
       \A k \in WrapperLines :
         (assembly[k].op = "call" /\ assembly[k].a[1] = ".") =>
           assembly[k].a = <<".", nodes[nodes[FirstFunction].children[1]].data>>
  /\ (pc = "running" /\ Given = Expected) =>
       /\ \A j \in 1..Len(machine.parsed) : machine.parsed[j] = Given - j + 1
       /\ \A g \in FunctionSymbols :
            (Entered(g) /\ FromWrapper) =>
              /\ g = FirstSymbol
              /\ Len(machine.parsed) = Given
              /\ ParametersAgree(g)
       /\ machine.status = "exited" =>
            /\ machine.exit_status = machine.regs["RAX"]
            /\ machine.rip < LabelIndex(<<"ABORT">>)
            /\ Doubles =>
                 machine.exit_status = Mul(strtol(machine.argv[2]), I64(2))

C16_step ==
  (pc = "running" /\ Given = Expected /\ machine'.status = "exited") =>
    /\ machine.rip \in WrapperLines
    /\ assembly[machine.rip - 2].op = "call"
    /\ assembly[machine.rip - 2].a =
         <<".", nodes[nodes[FirstFunction].children[1]].data>>

C16_entry_wrapper == [](C16_state) /\ [][C16_step]_vars

\* the doubling program, declared after a global variable and started with
\* 21, has exited with 42
C16_witness ==
  /\ pc = "running"
  /\ machine.status = "exited"
  /\ machine.exit_status = I64(42)
  /\ machine.parsed = <<1>>
  /\ machine.argv[2] = <<"2", "1">>
  /\ nodes[nodes[root].children[1]].type = "GLOBAL_DECLARATION"
  /\ Doubles

\* C20, as stated: the idivq emitted for a binary '/' leaves in the
\* accumulator the quotient, truncated toward zero, of the left operand
\* (popped into RCX and moved to RAX) by the right operand (moved to R8),
\* whenever the right operand is not 0, whatever the signs.
C20_step ==
  (/\ pc = "running"
   /\ machine.status = "running"
   /\ machine.rip \in 1..Len(assembly)
   /\ assembly[machine.rip].op = "idivq"
   /\ ~IsZero(machine.regs["R8"])) =>
    /\ machine'.status = "running"
    /\ machine'.regs["RAX"] = SDiv(machine.regs["RCX"], machine.regs["R8"])

C20_as_stated == [][C20_step]_vars

\* C22: the value remove_unreachable_code returns for a statement is TRUE
\* for a return and a break, FALSE for an if without else, for an if with
\* else TRUE iff both branches are diverting, FALSE for a while, for a block
\* TRUE iff one of its statements is diverting, and FALSE for every other
\* statement and for NULL.
C22_diverting_rules ==
  (/\ pc \in {"removing_body", "removed_body"}
   /\ call.fn = "remove_unreachable_code") =>
    /\ call.ret = Diverting(nodes, call.node)
    /\ call.node # NULL =>
         LET n == nodes[call.node]
         IN  /\ n.type \in {"RETURN_STATEMENT", "BREAK_STATEMENT"} => call.ret
             /\ n.type = "WHILE_STATEMENT" => ~call.ret
             /\ (n.type = "IF_STATEMENT" /\ n.n_children = 2) => ~call.ret
             /\ n.type \notin {"RETURN_STATEMENT", "BREAK_STATEMENT", "BLOCK",
                               "IF_STATEMENT"} => ~call.ret
    /\ call.node = NULL => ~call.ret

\* an if with a returning and a printing branch has been reported as not
\* diverting
C22_witness ==
  /\ pc = "removing_body"
  /\ call.fn = "remove_unreachable_code"
  /\ call.node # NULL
  /\ nodes[call.node].type = "IF_STATEMENT"
  /\ nodes[call.node].n_children = 3
  /\ nodes[nodes[call.node].children[2]].type = "RETURN_STATEMENT"
  /\ nodes[nodes[call.node].children[3]].type = "PRINT_STATEMENT"
  /\ call.ret = FALSE

\* what a second run of constant_fold_subtree does at node n once the
\* children of n have come back unchanged: the value its switch returns
Refold(h, n) ==
  CASE h[n].type = "OPERATOR" ->
         LET out == constant_fold_operator(h, n)
         IN  [nodes |-> out.nodes, ret |-> out.ret]
    [] h[n].type = "IF_STATEMENT" -> constant_fold_if(h, n)
    [] h[n].type = "WHILE_STATEMENT" -> constant_fold_while(h, n)
    [] OTHER -> [nodes |-> h, ret |-> n]

\* C27: after constant_fold_syntax_tree no OPERATOR node of the tree with an
\* operator and arity of the table has number literals for all its children,
\* no IF_STATEMENT has a number literal for condition and no WHILE_STATEMENT
\* the literal 0, so that a second run of the pass leaves every node, and
\* with that the tree, as it is.
C27_fold_normal_form ==
  pc = "folded" =>
    \A n \in Reach(nodes, root) :
      LET node == nodes[n]
          literal(k) == nodes[node.children[k]].type = "NUMBER_LITERAL"
      IN  /\ node.type = "OPERATOR" =>
               \/ get_operator_func(node.data, node.n_children) = "NULL"
               \/ \E k \in 1..node.n_children : ~literal(k)
          /\ node.type = "IF_STATEMENT" => ~literal(1)
          /\ node.type = "WHILE_STATEMENT" =>
               ~(literal(1) /\ IsZero(nodes[node.children[1]].data))
          /\ node.frees = 0
          /\ Refold(nodes, n) = [nodes |-> nodes, ret |-> n]

\* return 2 + 3 * 4 has become return 14: the sum has seen the literal 12
\* that folding the product left in its place
C27_witness ==
  /\ pc = "folded"
  /\ LET function == nodes[root].children[1]
         body == nodes[function].children[3]
     IN  /\ nodes[body].type = "RETURN_STATEMENT"
         /\ nodes[nodes[body].children[1]].type = "NUMBER_LITERAL"
         /\ nodes[nodes[body].children[1]].data = I64(14)
         /\ nodes[nodes[body].children[1]].frees = 0
         /\ \E n \in 1..Len(nodes) :
              /\ nodes[n].type = "NUMBER_LITERAL"
              /\ nodes[n].data = I64(12)
              /\ nodes[n].frees = 1

\* C29, as stated: constant_fold_operator comes back from every OPERATOR
\* node whose children are all number literals, a division by the literal 0
\* included, with a number literal or with the node itself; the compiler
\* does not stop while folding.
C29_step ==
  (/\ pc = "folding"
   /\ Top.i = nodes[Top.node].n_children
   /\ nodes[Top.node].type = "OPERATOR"
   /\ \A k \in 1..nodes[Top.node].n_children :
        nodes[nodes[Top.node].children[k]].type = "NUMBER_LITERAL") =>
    /\ pc' \in {"folding", "folded"}
    /\ call'.fn = "constant_fold_operator"
    /\ \/ call'.ret = Top.node /\ nodes'[Top.node] = nodes[Top.node]
       \/ nodes'[call'.ret].type = "NUMBER_LITERAL"

C29_as_stated == [][C29_step]_vars

\* C30: from the empty string list on, after every add_string the length is
\* below the capacity, the entry was written inside the allocation, the
\* entries before it are where and what they were whether the list grew or
\* not, and every STRING_LIST_REFERENCE node holds an index below the length
\* of the list, for which generate_stringtable emits a label.
C30_state ==
  /\ string_list_len > 0 => string_list_len < string_list_capacity
  /\ string_list_capacity \in {0, 8, 24}
  /\ pc \in {"create_tables", "bind_names", "bound", "generated"} =>
       \A n \in Reach(nodes, root) :
         nodes[n].type = "STRING_LIST_REFERENCE" =>
           /\ nodes[n].data \in 0..(string_list_len - 1)
           /\ string_list[nodes[n].data + 1].owner = n
           /\ pc = "generated" =>
                \E i \in 1..Len(assembly) :
                  /\ assembly[i].op = ".asciz"
                  /\ assembly[i].a = <<"string", nodes[n].data>>
                  /\ assembly[i].b = string_list[nodes[n].data + 1].string

C30_step ==
  string_list_len' # string_list_len =>
    /\ string_list_len' = string_list_len + 1
    /\ string_list_len < string_list_capacity'
    /\ string_list_capacity' =
         IF string_list_len + 1 >= string_list_capacity
         THEN string_list_capacity * 2 + 8 ELSE string_list_capacity
    /\ \A k \in 1..string_list_len : string_list'[k] = string_list[k]
    /\ string_list'[string_list_len + 1].string = nodes[Top.node].data

C30_string_list_capacity == [](C30_state) /\ [][C30_step]_vars

\* the eighth string has just made a list of capacity 8 grow to 24 with
\* the seven entries before it in place
C30_witness ==
  /\ pc = "bind_names"
  /\ string_list_len = 8
  /\ string_list_capacity = 24
  /\ \A k \in 1..8 : string_list[k].string = Digits[k]
  /\ nodes[string_list[8].owner].type = "STRING_LIST_REFERENCE"
  /\ nodes[string_list[8].owner].data = 7

(***************************************************************************)
(* Claims on the line-recognising automaton.                               *)
(***************************************************************************)
\* C23, as stated: the state reached by // at the start of a statement is
\* the comment state; in it every byte from 0 to 255 other than the newline
\* leads to the comment state again and the newline leads to ACCEPT, so no
\* byte of a comment leads to ERROR.
C23_state ==
  (pc = "filled" /\ prev = 10 /\ byte = Ord("/")) => state = 11

C23_step ==
  (pc = "filled" /\ state = 11) =>
    /\ byte' = Ord("\n") => state' = ACCEPT
    /\ byte' # Ord("\n") => state' = 11
    /\ state' # ERROR

C23_as_stated == [](C23_state) /\ [][C23_step]_vars

\* C24: a step enters ACCEPT only by a newline read in START, after go, after
\* a digit of a dx= or dy= number or in a comment; a newline read after g, d,
\* dx, dx=, dx=-, the digits of a label, the colon of a label or one / leads
\* to ERROR; from ERROR and from ACCEPT every byte leads to ERROR.
C24_state ==
  pc = "filled" =>
    /\ state = ACCEPT =>
         byte = Ord("\n") /\ prev \in {START, 2, 7, 11}
    /\ state = 1 => prev = START /\ byte = Ord("g")
    /\ state = 2 => prev = 1 /\ byte = Ord("o")
    /\ state = 3 => prev = START /\ byte = Ord("d")
    /\ state = 4 => prev = 3 /\ byte \in {Ord("x"), Ord("y")}
    /\ state = 5 => prev = 4 /\ byte = Ord("=")
    /\ state = 6 => prev = 5 /\ byte = Ord("-")
    /\ state = 7 => prev \in {5, 6, 7} /\ byte \in Ord("0")..Ord("9")
    /\ state = 8 => prev \in {START, 8} /\ byte \in Ord("0")..Ord("9")
    /\ state = 9 => prev = 8 /\ byte = Ord(":")
    /\ state = 10 => prev = START /\ byte = Ord("/")
    /\ state = 11 => \/ prev = 10 /\ byte = Ord("/")
                     \/ prev = 11 /\ byte # Ord("\n")
    /\ \A i \in 0..(NSTATES - 1) : \A ch \in 0..255 :
         /\ transition_table[i][ch] = ACCEPT <=>
              ch = Ord("\n") /\ i \in {START, 2, 7, 11}
         /\ i \in {ACCEPT, ERROR} => transition_table[i][ch] = ERROR

C24_step ==
  pc = "filled" =>
    /\ state' = ACCEPT => byte' = Ord("\n") /\ state \in {START, 2, 7, 11}
    /\ (byte' = Ord("\n") /\ state \in {1, 3, 4, 5, 6, 8, 9, 10}) =>
         state' = ERROR
    /\ state \in {ACCEPT, ERROR} => state' = ERROR

C24_accept_on_newline == [](C24_state) /\ [][C24_step]_vars

\* the newline after the colon of a label has led to ERROR
C24_witness ==
  /\ pc = "filled"
  /\ prev = 9
  /\ byte = Ord("\n")
  /\ state = ERROR

(***************************************************************************)
(* Claims on the code of expressions.                                      *)
(***************************************************************************)
\* the calls under n whose code pushes more or fewer words than it pops
Unbalanced(n) ==
  {c \in CallsIn(n) :
     nodes[nodes[c].children[2]].n_children #
       find_min(FUNC_PARAM_COUNT(nodes[nodes[c].children[1]].symbol),
                NUM_REGISTER_PARAMS)}

\* the machine is about to run the last instruction of the code of the
\* binary operator node e
Combines(e) ==
  /\ pc = "running"
  /\ machine.status = "running"
  /\ machine.rip \in 1..Len(assembly)
  /\ assembly[machine.rip].op # "call"
  /\ assembly[machine.rip].arg = <<e>>

BinaryNodes ==
  {e \in 1..Len(nodes) : nodes[e].type = "OPERATOR" /\ nodes[e].n_children = 2}

\* the value the left operand was evaluated to and pushed with, the value
\* in the accumulator once the right operand was evaluated
LeftValue(e) == machine.evaluated[e][1]
RightValue(e) == machine.evaluated[e][2]

SameSign(a, b) == IsNeg(a) <=> IsNeg(b)

\* C21, as stated: the code of every binary operator node leaves in the
\* accumulator left OP right, the operands in that order (the divisor of a
\* division not 0): the difference left - right for '-', and for a
\* comparison 1 if left OP right holds and 0 if not, in all 64 bits.
C21_step_as_stated ==
  \A e \in BinaryNodes :
    (/\ Combines(e)
     /\ nodes[e].data = "/" => ~IsZero(RightValue(e))) =>
      /\ machine'.status = "running"
      /\ machine'.regs["RAX"] =
           Int64Result(nodes[e].data, 2, LeftValue(e), RightValue(e))

C21_step ==
  \A e \in BinaryNodes :
    (/\ Combines(e)
     /\ Unbalanced(nodes[e].children[2]) = {}
     /\ nodes[e].data = "/" =>
          /\ ~IsZero(RightValue(e))
          /\ SameSign(LeftValue(e), RightValue(e))) =>
      /\ machine'.status = "running"
      /\ machine'.regs["RAX"] =
           Int64Result(nodes[e].data, 2, LeftValue(e), RightValue(e))

\* the left operand is pushed once it is evaluated and is in RCX once the
\* right operand is evaluated
C21_saved ==
  \A e \in BinaryNodes :
    (/\ pc = "running"
     /\ machine.status = "running"
     /\ machine.rip \in 1..Len(assembly)
     /\ assembly[machine.rip].arg = <<e, 1>>
     /\ Unbalanced(nodes[e].children[2]) = {}) =>
      /\ machine'.status = "running"
      /\ machine'.regs["RCX"] = LeftValue(e)
      /\ machine'.regs["RAX"] = machine.regs["RAX"]

Expressions(f) ==
  {e \in Reach(nodes, Body(nodes, f)) :
     \/ nodes[e].type \in {"NUMBER_LITERAL", "ARRAY_INDEXING", "OPERATOR",
                           "FUNCTION_CALL"}
     \/ /\ nodes[e].type = "IDENTIFIER"
        /\ nodes[e].symbol # NULL
        /\ symbols[nodes[e].symbol].type \in
             {"SYMBOL_GLOBAL_VAR", "SYMBOL_PARAMETER", "SYMBOL_LOCAL_VAR"}}

\* how many lines of the code are op
Count(code, op) == Cardinality({k \in 1..Len(code) : code[k].op = op})

\* C25, as stated: the code generate_expression emits for an expression node
\* pops as many words as it pushes (a called function leaves the stack
\* pointer where it found it), so the stack pointer after it is the stack
\* pointer before it, and the word popped as the saved left operand of a
\* binary operator is the word pushed for it.
C25_balance ==
  pc = "generated" =>
    \A f \in Functions(nodes) : \A e \in Expressions(f) :
      LET code == generate_expression(e, FunctionSymbol(f))
      IN  Count(code, "pushq") = Count(code, "popq")

C25_pop ==
  \A e \in BinaryNodes :
    (/\ pc = "running"
     /\ machine.status = "running"
     /\ machine.rip \in 1..Len(assembly)
     /\ assembly[machine.rip].arg = <<e, 1>>) =>
      /\ machine'.status = "running"
      /\ machine'.regs["RCX"] = LeftValue(e)

C25_as_stated == [](C25_balance) /\ [][C25_pop]_vars

\* C26, as stated: the code of a function holds exactly one call instruction
\* for every FUNCTION_CALL node of its body, wherever the node is.
C26_as_stated ==
  pc = "generated" =>
    \A f \in Functions(nodes) : \A c \in CallsIn(Body(nodes, f)) :
      Cardinality({k \in 1..Len(assembly) :
                     assembly[k].op = "call" /\ assembly[k].arg = <<c>>}) = 1

\* C28, as stated: the code of a NUMBER_LITERAL node is one movq of the
\* value of the node, all 64 bits of it, into RAX, and running it leaves
\* that value in the accumulator.
C28_load ==
  pc = "generated" =>
    \A f \in Functions(nodes) : \A e \in Expressions(f) :
      nodes[e].type = "NUMBER_LITERAL" =>
        LET code == generate_expression(e, FunctionSymbol(f))
        IN  /\ Len(code) = 1
            /\ code[1].op = "movq"
            /\ code[1].a = [k |-> "imm", v |-> nodes[e].data]
            /\ code[1].b = R("RAX")

C28_step ==
  (/\ pc = "running"
   /\ machine.status = "running"
   /\ machine.rip \in 1..Len(assembly)
   /\ assembly[machine.rip].op = "movq"
   /\ assembly[machine.rip].a.k = "imm"
   /\ assembly[machine.rip].b = R("RAX")) =>
    machine'.regs["RAX"] = assembly[machine.rip].a.v

C28_as_stated == [](C28_load) /\ [][C28_step]_vars

====
